---- MODULE Spec2Model ----
(***************************************************************************)
(* Deposition-transcript contradiction pipeline of legal-automations:      *)
(*   - the contradiction detector (findContradictions, generateCandidates, *)
(*     detectContradictionInPair, getPairKey, hasTemporalOverlap),         *)
(*   - the local vector search (cosineSimilarity, findSimilarVectors),     *)
(*   - the transcript segmenter (parseIntoLines, extractUtterances).       *)
(*                                                                         *)
(* Strings are sequences of one-character strings, so that the regular     *)
(* expressions of the source are computed on characters.  A similarity     *)
(* score is an exact real number s * sqrt(num / den), kept as the record   *)
(* [sgn |-> s, num |-> num, den |-> den]; comparisons cross-multiply.      *)
(***************************************************************************)
EXTENDS Integers, Sequences, FiniteSets, TLC

VARIABLES
    claims,          \* findContradictions: the claims argument (Claim[])
    embeddings,      \* findContradictions: the embeddings argument, or NoEmbeddings
    topK,            \* findContradictions / generateCandidates: topK
    threshold,       \* similarityThreshold, a score record
    query,           \* generateCandidates alone: index of the query claim
    i,               \* findContradictions: loop index over claims (1-based)
    j,               \* findContradictions: position in candidates (1-based)
    candidates,      \* result of generateCandidates for the current claim
    pc,              \* position of the running function
    alreadyCompared, \* findContradictions: Set<string> of pair keys
    pairsAnalyzed,   \* findContradictions: counter
    contradictions,  \* findContradictions: Contradiction[] being collected
    calls,           \* history: classifier invocations, in order
    progressLog,     \* history: progress callbacks delivered, in order
    returned,        \* value the promise of findContradictions resolved to
    rawText,         \* segmenter: the document text, a sequence of lines
    utterances,      \* segmenter: result of extractUtterances
    status,          \* App: the ProcessingStatus state
    report,          \* App: the Report state, or NoReport (null)
    validClaims,     \* handleFileSelected: claims with a non-blank text
    events,          \* history: what handleFileSelected invoked, in order
    suspended,       \* the frame of a second findContradictions invocation
    input,           \* the arguments of a utility function under call
    taggedLines,     \* extractUtterances: lines, the result of parseIntoLines
    currentUtterance, \* extractUtterances: the utterance being buffered
    localStorage,    \* the item of localStorage under STORAGE_KEY, or NoItem
    emptyStorage     \* the module-level object emptyStorage

\* the state of the App component and of handleFileSelected
appVars == <<status, report, validClaims, events>>

\* the locals of extractUtterances
segmenterVars == <<taggedLines, currentUtterance>>

\* the browser storage and the module state of the storage utilities
storageVars == <<localStorage, emptyStorage>>

vars == <<claims, embeddings, topK, threshold, query, i, j, candidates, pc,
          alreadyCompared, pairsAnalyzed, contradictions, calls, progressLog,
          returned, rawText, utterances, appVars, suspended, input, segmenterVars, storageVars>>

(***************************************************************************)
(* Bounds of the model.                                                    *)
(***************************************************************************)
MaxClaims == 3        \* claims in one findContradictions run
MaxGenClaims == 4     \* claims handed to one generateCandidates call
MaxTopK == 2          \* largest topK tried
MaxLines == 4         \* lines of a transcript
MaxRunLines == 2      \* lines of the transcript of a pipeline run
MaxRunClaims == 2     \* claims extracted in a pipeline run
MaxExtractLines == 3  \* lines of a transcript claims are extracted from
MaxStatistics == 3    \* contradictions handed to getContradictionStatistics
MaxTwoRunClaims == 2  \* claims given to each of two findContradictions calls
MaxDimension == 2     \* length of the vectors given to cosineSimilarity
MaxComponent == 2     \* magnitude of the components of those vectors
MaxStepLines == 3     \* lines of a transcript segmented step by step

(***************************************************************************)
(* Generic helpers.                                                        *)
(***************************************************************************)
\* undefined, for an optional string
None == <<"undefined">>

\* an optional number[]: a vector, or undefined
Vec(v) == [defined |-> TRUE, v |-> v]
UndefinedVec == [defined |-> FALSE, v |-> <<>>]

Min(a, b) == IF a <= b THEN a ELSE b

\* Array.prototype.slice(0, n) for n >= 0
Slice0(s, n) == SubSeq(s, 1, Min(Len(s), n))

RECURSIVE FilterSeq(_, _)
\* Array.prototype.filter with the predicate given as a set of kept values
FilterSeq(s, keep) ==
    IF s = <<>> THEN <<>>
    ELSE IF Head(s) \in keep THEN <<Head(s)>> \o FilterSeq(Tail(s), keep)
         ELSE FilterSeq(Tail(s), keep)

Range(s) == {s[k] : k \in 1..Len(s)}

(***************************************************************************)
(* Characters and strings (sequences of one-character strings).            *)
(***************************************************************************)
UpperChars == <<"A","B","C","D","E","F","G","H","I","J","K","L","M",
                "N","O","P","Q","R","S","T","U","V","W","X","Y","Z">>
LowerChars == <<"a","b","c","d","e","f","g","h","i","j","k","l","m",
                "n","o","p","q","r","s","t","u","v","w","x","y","z">>
Digits == {"0","1","2","3","4","5","6","7","8","9"}

IsDigit(c) == c \in Digits

\* String.prototype.toLowerCase, one character
ToLowerChar(c) ==
    IF \E k \in 1..26 : UpperChars[k] = c
    THEN LowerChars[CHOOSE k \in 1..26 : UpperChars[k] = c]
    ELSE c

\* String.prototype.toLowerCase
toLowerCase(s) == [k \in 1..Len(s) |-> ToLowerChar(s[k])]

(***************************************************************************)
(* Similarity scores: the real number sgn * sqrt(num / den), den > 0.      *)
(***************************************************************************)
\* the decimal p/q written in the source (0.8, 0.7, 0.75, 0.6)
Decimal(p, q) == [sgn |-> 1, num |-> p * p, den |-> q * q]

ZeroScore == [sgn |-> 0, num |-> 0, den |-> 1]

\* a >= b on numbers
ScoreGeq(a, b) ==
    IF a.sgn # b.sgn THEN a.sgn > b.sgn
    ELSE IF a.sgn = 0 THEN TRUE
    ELSE IF a.sgn = 1 THEN a.num * b.den >= b.num * a.den
    ELSE a.num * b.den <= b.num * a.den

ScoreEq(a, b) == ScoreGeq(a, b) /\ ScoreGeq(b, a)

ScoreGt(a, b) == ~ ScoreGeq(b, a)

(***************************************************************************)
(* utils/vectorSearch.ts                                                   *)
(***************************************************************************)
RECURSIVE Dot(_, _)
Dot(a, b) == IF a = <<>> THEN 0 ELSE Head(a) * Head(b) + Dot(Tail(a), Tail(b))

\* cosineSimilarity throws: the length check, or .length of undefined
cosineThrows(vecA, vecB) ==
    ~ vecA.defined \/ ~ vecB.defined \/ Len(vecA.v) # Len(vecB.v)

\* cosineSimilarity, where it does not throw:
\* dotProduct / (sqrt(normA) * sqrt(normB)), 0 when a norm is 0
cosineSimilarity(vecA, vecB) ==
    LET dotProduct == Dot(vecA.v, vecB.v)
        normA == Dot(vecA.v, vecA.v)
        normB == Dot(vecB.v, vecB.v)
    IN  IF normA = 0 \/ normB = 0 \/ dotProduct = 0 THEN ZeroScore
        ELSE [sgn |-> IF dotProduct > 0 THEN 1 ELSE -1,
              num |-> dotProduct * dotProduct,
              den |-> normA * normB]

RECURSIVE InsertDesc(_, _)
\* place x behind every element whose similarity is >= x.similarity
InsertDesc(sorted, x) ==
    IF sorted = <<>> THEN <<x>>
    ELSE IF ScoreGeq(Head(sorted).similarity, x.similarity)
         THEN <<Head(sorted)>> \o InsertDesc(Tail(sorted), x)
         ELSE <<x>> \o sorted

RECURSIVE SortDesc(_)
\* Array.prototype.sort((a, b) => b.similarity - a.similarity): stable, descending
SortDesc(s) ==
    IF s = <<>> THEN <<>>
    ELSE InsertDesc(SortDesc(SubSeq(s, 1, Len(s) - 1)), s[Len(s)])

findSimilarVectorsThrows(queryVector, corpus) ==
    \E k \in 1..Len(corpus) : cosineThrows(queryVector, corpus[k])

RECURSIVE SimilarFrom(_, _, _, _)
\* the loop of findSimilarVectors from corpus position k on (index is 1-based here)
SimilarFrom(queryVector, corpus, minSimilarity, k) ==
    IF k > Len(corpus) THEN <<>>
    ELSE LET similarity == cosineSimilarity(queryVector, corpus[k])
             rest == SimilarFrom(queryVector, corpus, minSimilarity, k + 1)
         IN  IF ScoreGeq(similarity, minSimilarity)
             THEN <<[index |-> k, similarity |-> similarity]>> \o rest
             ELSE rest

\* the vector search cut to half as many results
findSimilarVectorsHalf(queryVector, corpus, k, minSimilarity) ==
    Slice0(SortDesc(SimilarFrom(queryVector, corpus, minSimilarity, 1)), k \div 2)

findSimilarVectors(queryVector, corpus, k, minSimilarity) ==
    Slice0(SortDesc(SimilarFrom(queryVector, corpus, minSimilarity, 1)), k)

(***************************************************************************)
(* Contradiction detector: candidate generation.                           *)
(* A claim is [id, utteranceId, entities, topics, timeScope]; the fields   *)
(* the detector only copies (text, polarity, citation, ...) are left out.  *)
(***************************************************************************)
\* a JavaScript string used as a condition: undefined and "" are falsy
Truthy(str) == str # None /\ str # <<>>

RECURSIVE MatchYearsFrom(_, _)
\* scope.match(/\d{4}/g) || [] from position p on: leftmost matches, not overlapping
MatchYearsFrom(scope, p) ==
    IF p + 3 > Len(scope) THEN <<>>
    ELSE IF \A d \in 0..3 : IsDigit(scope[p + d])
         THEN <<SubSeq(scope, p, p + 3)>> \o MatchYearsFrom(scope, p + 4)
         ELSE MatchYearsFrom(scope, p + 1)

hasTemporalOverlap(scopeA, scopeB) ==
    LET yearsA == MatchYearsFrom(scopeA, 1)
        yearsB == MatchYearsFrom(scopeB, 1)
    IN  \E k \in 1..Len(yearsA) : yearsA[k] \in Range(yearsB)

\* the entity comparison without toLowerCase
sharedEntitiesExact(claim, claimB) ==
    \E k \in 1..Len(claim.entities) : claim.entities[k] \in Range(claimB.entities)

\* claim.entities.filter(e => claimB.entities.some(e2 => lower(e2) === lower(e))).length > 0
sharedEntities(claim, claimB) ==
    \E k \in 1..Len(claim.entities) : \E m \in 1..Len(claimB.entities) :
        toLowerCase(claimB.entities[m]) = toLowerCase(claim.entities[k])

\* claim.topics.filter(t => claimB.topics.includes(t)).length > 0
sharedTopics(claim, claimB) ==
    \E k \in 1..Len(claim.topics) : claim.topics[k] \in Range(claimB.topics)

\* the exclusion set holding the query claim alone
sameUtteranceIdsSelfOnly(claim, allClaims) == {claim.id}

sameUtteranceIds(claim, allClaims) ==
    {allClaims[k].id : k \in {m \in 1..Len(allClaims) :
                                allClaims[m].utteranceId = claim.utteranceId}}

Push(acc, claim, claimB, similarity, reason) ==
    [candidates |-> Append(acc.candidates,
                           [claimA |-> claim, claimB |-> claimB,
                            similarity |-> similarity, reason |-> reason]),
     seenIds |-> acc.seenIds \cup {claimB.id}]

RECURSIVE SemanticLoop(_, _, _, _, _, _)
\* for (const result of similarResults) { ... } from result k on
SemanticLoop(claim, allClaims, otherClaims, similarResults, acc, k) ==
    IF k > Len(similarResults) THEN acc
    ELSE LET result == similarResults[k]
             claimB == otherClaims[result.index].claim
         IN  IF claimB.id \in acc.seenIds \/ claimB.id \in sameUtteranceIds(claim, allClaims)
             THEN SemanticLoop(claim, allClaims, otherClaims, similarResults, acc, k + 1)
             ELSE SemanticLoop(claim, allClaims, otherClaims, similarResults,
                               Push(acc, claim, claimB, result.similarity, "semantic"), k + 1)

\* the semantic step that, instead of giving up on a throw, searches the
\* embeddings it can compare
SemanticSignalSkipsBad(claim, allClaims, claimsWithEmbeddings, k, similarityThreshold, acc) ==
    IF Len(claimsWithEmbeddings) = 0 THEN acc
    ELSE LET found == {m \in 1..Len(claimsWithEmbeddings) :
                          claimsWithEmbeddings[m].claim.id = claim.id}
         IN  IF found = {} THEN acc
             ELSE LET currentClaimEmbedding ==
                          claimsWithEmbeddings[CHOOSE m \in found : \A n \in found : m <= n]
                      otherClaims ==
                          FilterSeq(claimsWithEmbeddings,
                                    {ce \in Range(claimsWithEmbeddings) :
                                        /\ ce.claim.id # claim.id
                                        /\ ce.claim.id \notin sameUtteranceIds(claim, allClaims)
                                        /\ ~ cosineThrows(currentClaimEmbedding.embedding,
                                                          ce.embedding)})
                      otherEmbeddings ==
                          [m \in 1..Len(otherClaims) |-> otherClaims[m].embedding]
                  IN  SemanticLoop(claim, allClaims, otherClaims,
                                   findSimilarVectors(currentClaimEmbedding.embedding,
                                                      otherEmbeddings, k * 2,
                                                      similarityThreshold),
                                   acc, 1)

\* 1. the try block: semantic similarity; a throw leaves acc as it was
SemanticSignal(claim, allClaims, claimsWithEmbeddings, k, similarityThreshold, acc) ==
    IF Len(claimsWithEmbeddings) = 0 THEN acc
    ELSE LET found == {m \in 1..Len(claimsWithEmbeddings) :
                          claimsWithEmbeddings[m].claim.id = claim.id}
         IN  IF found = {} THEN acc
             ELSE LET currentClaimEmbedding ==
                          claimsWithEmbeddings[CHOOSE m \in found : \A n \in found : m <= n]
                      otherClaims ==
                          FilterSeq(claimsWithEmbeddings,
                                    {ce \in Range(claimsWithEmbeddings) :
                                        /\ ce.claim.id # claim.id
                                        /\ ce.claim.id \notin sameUtteranceIds(claim, allClaims)})
                      otherEmbeddings ==
                          [m \in 1..Len(otherClaims) |-> otherClaims[m].embedding]
                  IN  IF findSimilarVectorsThrows(currentClaimEmbedding.embedding, otherEmbeddings)
                      THEN acc
                      ELSE SemanticLoop(claim, allClaims, otherClaims,
                                        findSimilarVectors(currentClaimEmbedding.embedding,
                                                           otherEmbeddings, k * 2,
                                                           similarityThreshold),
                                        acc, 1)

RECURSIVE EntityLoop(_, _, _, _)
\* 2. same entity mentions: similarity 0.8
EntityLoop(claim, allClaims, acc, k) ==
    IF k > Len(allClaims) THEN acc
    ELSE LET claimB == allClaims[k]
         IN  IF claimB.id \in acc.seenIds \/ claimB.id \in sameUtteranceIds(claim, allClaims)
             THEN EntityLoop(claim, allClaims, acc, k + 1)
             ELSE IF sharedEntities(claim, claimB)
                  THEN EntityLoop(claim, allClaims,
                                  Push(acc, claim, claimB, Decimal(8, 10), "entity"), k + 1)
                  ELSE EntityLoop(claim, allClaims, acc, k + 1)

RECURSIVE TopicLoopIgnoresSeen(_, _, _, _)
\* the topic loop without the test of seenIds
TopicLoopIgnoresSeen(claim, allClaims, acc, k) ==
    IF k > Len(allClaims) THEN acc
    ELSE LET claimB == allClaims[k]
         IN  IF claimB.id \in sameUtteranceIds(claim, allClaims)
             THEN TopicLoopIgnoresSeen(claim, allClaims, acc, k + 1)
             ELSE IF sharedTopics(claim, claimB)
                  THEN TopicLoopIgnoresSeen(claim, allClaims,
                                  Push(acc, claim, claimB, Decimal(7, 10), "topic"), k + 1)
                  ELSE TopicLoopIgnoresSeen(claim, allClaims, acc, k + 1)

RECURSIVE TopicLoop(_, _, _, _)
\* 3. same topic: similarity 0.7
TopicLoop(claim, allClaims, acc, k) ==
    IF k > Len(allClaims) THEN acc
    ELSE LET claimB == allClaims[k]
         IN  IF claimB.id \in acc.seenIds \/ claimB.id \in sameUtteranceIds(claim, allClaims)
             THEN TopicLoop(claim, allClaims, acc, k + 1)
             ELSE IF sharedTopics(claim, claimB)
                  THEN TopicLoop(claim, allClaims,
                                 Push(acc, claim, claimB, Decimal(7, 10), "topic"), k + 1)
                  ELSE TopicLoop(claim, allClaims, acc, k + 1)

RECURSIVE TemporalLoop(_, _, _, _)
\* 4. temporal overlap: similarity 0.75
TemporalLoop(claim, allClaims, acc, k) ==
    IF k > Len(allClaims) THEN acc
    ELSE LET claimB == allClaims[k]
         IN  IF claimB.id \in acc.seenIds \/ claimB.id \in sameUtteranceIds(claim, allClaims)
             THEN TemporalLoop(claim, allClaims, acc, k + 1)
             ELSE IF Truthy(claimB.timeScope)
                     /\ hasTemporalOverlap(claim.timeScope, claimB.timeScope)
                  THEN TemporalLoop(claim, allClaims,
                                    Push(acc, claim, claimB, Decimal(75, 100), "temporal"), k + 1)
                  ELSE TemporalLoop(claim, allClaims, acc, k + 1)

\* the candidates array before the final sort and slice
MergedCandidates(claim, allClaims, claimsWithEmbeddings, k, similarityThreshold) ==
    LET acc0 == [candidates |-> <<>>, seenIds |-> {claim.id}]
        acc1 == SemanticSignal(claim, allClaims, claimsWithEmbeddings, k,
                               similarityThreshold, acc0)
        acc2 == EntityLoop(claim, allClaims, acc1, 1)
        acc3 == TopicLoop(claim, allClaims, acc2, 1)
        acc4 == IF Truthy(claim.timeScope) THEN TemporalLoop(claim, allClaims, acc3, 1)
                ELSE acc3
    IN  acc4.candidates

\* the cut without the sort
CutUnranked(merged, k) == Slice0(merged, k)

RankAndCut(merged, k) == Slice0(SortDesc(merged), k)

generateCandidates(claim, allClaims, claimsWithEmbeddings, k, similarityThreshold) ==
    RankAndCut(MergedCandidates(claim, allClaims, claimsWithEmbeddings, k,
                                similarityThreshold), k)

(***************************************************************************)
(* Inputs: claim profiles as the claim extractor and the embedding         *)
(* provider can deliver them.                                              *)
(***************************************************************************)
Bob == <<"B","o","b">>
BOB == <<"B","O","B">>
bob == <<"b","o","b">>
Al == <<"A","l">>

Profiles == <<
    [utteranceId |-> 1, entities |-> <<Bob>>, topics |-> <<"duty">>,
     timeScope |-> <<"2","0","1","9">>, embedding |-> Vec(<<1, 0>>)],
    [utteranceId |-> 2, entities |-> <<BOB>>, topics |-> <<>>,
     timeScope |-> None, embedding |-> Vec(<<1, 1>>)],
    [utteranceId |-> 2, entities |-> <<>>, topics |-> <<"duty">>,
     timeScope |-> <<"i","n"," ","2","0","1","9">>, embedding |-> Vec(<<3, 4>>)],
    [utteranceId |-> 3, entities |-> <<>>, topics |-> <<>>,
     timeScope |-> <<"2","0","1","8","/","2","0","1","9">>, embedding |-> Vec(<<-1, 1>>)],
    [utteranceId |-> 1, entities |-> <<Al>>, topics |-> <<"pay">>,
     timeScope |-> <<>>, embedding |-> Vec(<<1, 1>>)],
    [utteranceId |-> 3, entities |-> <<Al>>, topics |-> <<"pay">>,
     timeScope |-> <<"1","2","0","1","9">>, embedding |-> Vec(<<1, 0, 0>>)],
    [utteranceId |-> 4, entities |-> <<bob, Al>>, topics |-> <<"pay", "duty">>,
     timeScope |-> None, embedding |-> Vec(<<4, 3>>) ] >>

\* the profiles used for whole runs of findContradictions
RunProfiles == {1, 2, 3, 4}

\* similarityThreshold: 0.6 (the application's call) and 0.7 (the default)
Thresholds == {Decimal(6, 10), Decimal(7, 10)}

IdAlphabet == <<"3", "b", "7", "e">>

\* id: uuidv4() of the k-th claim created: distinct ids, in no particular order
Uuid(k) == <<IdAlphabet[(k % 2) + 1], IdAlphabet[(k \div 2) + 1]>>

ClaimOf(profile, k) ==
    [id |-> Uuid(k), utteranceId |-> Profiles[profile].utteranceId,
     entities |-> Profiles[profile].entities, topics |-> Profiles[profile].topics,
     timeScope |-> Profiles[profile].timeScope]

\* the optional embeddings argument: number[][] or undefined
NoEmbeddings == [given |-> FALSE, list |-> <<>>]
Embeddings(list) == [given |-> TRUE, list |-> list]

\* claims.map((claim, i) => ({ claim, embedding: embeddings[i] })), or []
ClaimsWithEmbeddings(cs, embs) ==
    IF ~ embs.given THEN <<>>
    ELSE [k \in 1..Len(cs) |->
            [claim |-> cs[k],
             embedding |-> IF k <= Len(embs.list) THEN embs.list[k] ELSE UndefinedVec]]

(***************************************************************************)
(* SpecGen: one call of generateCandidates on any input.                   *)
(***************************************************************************)
\* the App component before any file was selected (useState initial values)
NoReport == [set |-> FALSE]
\* a progress value, the rational number num / den (den > 0)
Percent(num, den) == [num |-> num, den |-> den]
\* a status without the optional error field; args are the numbers the
\* message template shows
Status(stage, progress, message, args) ==
    [stage |-> stage, progress |-> progress, message |-> message, args |-> args]
IdleStatus == Status("idle", Percent(0, 1), "", <<>>)
\* no utility function is under call
NoInput == <<>>

\* no other invocation of findContradictions is suspended
NoFrame == [pc |-> "none"]

IdleApp ==
    /\ status = IdleStatus /\ report = NoReport
    /\ validClaims = <<>> /\ events = <<>>

IdleDetector ==
    /\ i = 0 /\ j = 0
    /\ alreadyCompared = {} /\ pairsAnalyzed = 0 /\ contradictions = <<>>
    /\ calls = <<>> /\ progressLog = <<>> /\ returned = <<>>

IdleSegmenter == rawText = <<>> /\ utterances = <<>>

\* extractUtterances is not running
IdleLoop == taggedLines = <<>> /\ currentUtterance = <<>>

\* nothing stored: no item under STORAGE_KEY, emptyStorage as initialised
EmptyData == [documents |-> <<>>, utterances |-> <<>>, claims |-> <<>>,
              contradictions |-> <<>>]
NoItem == [present |-> FALSE]
IdleStorage == localStorage = NoItem /\ emptyStorage = EmptyData

InitGen ==
    /\ \E n \in 1..MaxGenClaims : \E prof \in [1..n -> 1..Len(Profiles)] :
          /\ claims = [k \in 1..n |-> ClaimOf(prof[k], k)]
          /\ embeddings \in {NoEmbeddings,
                             Embeddings([k \in 1..n |-> Profiles[prof[k]].embedding]),
                             \* one embedding short: embeddings[n - 1] is undefined
                             Embeddings([k \in 1..(n - 1) |-> Profiles[prof[k]].embedding])}
          /\ query \in 1..n
    /\ topK \in 0..MaxTopK
    /\ threshold \in Thresholds
    /\ candidates = <<>>
    /\ pc = "generate"
    /\ IdleDetector
    /\ IdleSegmenter
    /\ IdleApp
    /\ suspended = NoFrame
    /\ IdleLoop
    /\ IdleStorage
    /\ input = NoInput

GenerateCall ==
    /\ pc = "generate"
    /\ candidates' = generateCandidates(claims[query], claims,
                                        ClaimsWithEmbeddings(claims, embeddings),
                                        topK, threshold)
    /\ pc' = "generated"
    /\ UNCHANGED <<claims, embeddings, topK, threshold, query, i, j,
                   alreadyCompared, pairsAnalyzed, contradictions, calls,
                   progressLog, returned, rawText, utterances, appVars, suspended, input, segmenterVars, storageVars>>

NextGen == GenerateCall

SpecGen == InitGen /\ [][NextGen]_vars

(***************************************************************************)
(* Properties of generateCandidates (SpecGen).                             *)
(***************************************************************************)
Generated == pc = "generated"

QueryClaim == claims[query]

\* what the generator had merged before ranking, for the input of this state
Merged == MergedCandidates(QueryClaim, claims, ClaimsWithEmbeddings(claims, embeddings),
                           topK, threshold)

NonIncreasing(cs) ==
    \A k \in 1..(Len(cs) - 1) : ScoreGeq(cs[k].similarity, cs[k + 1].similarity)

\* C8: generateCandidates returns at most topK pairs, in non-increasing order
\* of similarity, and they are the topK highest-scored of the merged
\* candidates: as many as topK allows, each a merged candidate, and no merged
\* candidate left out scores strictly higher than one returned.
C8_TopKRanked ==
    Generated =>
        /\ Len(candidates) = Min(topK, Len(Merged))
        /\ NonIncreasing(candidates)
        /\ \A k \in 1..Len(candidates) : candidates[k] \in Range(Merged)
        /\ \A k, m \in 1..Len(candidates) :
              k # m => candidates[k].claimB.id # candidates[m].claimB.id
        /\ \A m \in 1..Len(Merged) :
              Merged[m] \notin Range(candidates) =>
                  \A k \in 1..Len(candidates) :
                      ~ ScoreGt(Merged[m].similarity, candidates[k].similarity)

\* a call in which ranking mattered: more merged candidates than topK, the
\* merged order is not the ranked order, and a candidate left out scores lower
\* than every one returned
C8_Witness ==
    /\ Generated
    /\ topK >= 1
    /\ Len(Merged) > topK
    /\ Len(candidates) = topK
    /\ \E m \in 1..Len(Merged) :
          /\ Merged[m] \notin Range(candidates)
          /\ ScoreGt(candidates[Len(candidates)].similarity, Merged[m].similarity)
    /\ \E m \in 1..Len(Merged) : ScoreGt(Merged[m].similarity, Merged[1].similarity)

HasEmbedding(k) ==
    embeddings.given /\ k <= Len(embeddings.list) /\ embeddings.list[k].defined

\* claim k can be compared with the query: another utterance, an embedding of
\* the query's length
Eligible(k) ==
    /\ claims[k].utteranceId # QueryClaim.utteranceId
    /\ HasEmbedding(k)
    /\ Len(embeddings.list[k].v) = Len(embeddings.list[query].v)

Cosine(k) == cosineSimilarity(embeddings.list[query], embeddings.list[k])

SemanticallySimilar(k) ==
    HasEmbedding(query) /\ Eligible(k) /\ ScoreGeq(Cosine(k), threshold)

\* the semantic step of this call runs to its end: the query has an embedding
\* and every claim of another utterance has one of the same length
SemanticStepSucceeds ==
    /\ HasEmbedding(query)
    /\ \A k \in 1..Len(claims) :
          claims[k].utteranceId # QueryClaim.utteranceId => Eligible(k)

FixedScores == {Decimal(8, 10), Decimal(7, 10), Decimal(75, 100)}

\* C9 as stated: when the query claim has an embedding (and so has every
\* claim it can be compared with), every eligible claim whose cosine
\* similarity is >= similarityThreshold is proposed by the semantic signal, so
\* wherever it appears in the returned list it carries reason = semantic and
\* its true cosine similarity.
C9_AllSimilarAreSemantic ==
    (Generated /\ SemanticStepSucceeds) =>
        \A k \in 1..Len(claims) : \A c \in 1..Len(candidates) :
            (SemanticallySimilar(k) /\ candidates[c].claimB = claims[k]) =>
                /\ candidates[c].reason = "semantic"
                /\ ScoreEq(candidates[c].similarity, Cosine(k))

\* number of eligible claims the vector search ranks before claim k: a higher
\* cosine similarity, or the same and earlier in the input
RankedBefore(k) ==
    Cardinality({m \in 1..Len(claims) :
        /\ SemanticallySimilar(m)
        /\ \/ ScoreGt(Cosine(m), Cosine(k))
           \/ ScoreEq(Cosine(m), Cosine(k)) /\ m < k})

\* C9 (amended): when the semantic step succeeds, an eligible claim with
\* cosine similarity >= similarityThreshold that is among the 2 * topK most
\* similar ones carries reason = semantic and its true cosine similarity
\* wherever it appears in the returned list; and every returned pair tagged
\* semantic is such a claim with its true cosine similarity as score.
C9_TopSimilarAreSemantic ==
    Generated =>
        /\ SemanticStepSucceeds =>
              \A k \in 1..Len(claims) : \A c \in 1..Len(candidates) :
                  ( /\ SemanticallySimilar(k)
                    /\ RankedBefore(k) < 2 * topK
                    /\ candidates[c].claimB = claims[k] ) =>
                        /\ candidates[c].reason = "semantic"
                        /\ ScoreEq(candidates[c].similarity, Cosine(k))
        /\ \A c \in 1..Len(candidates) :
              candidates[c].reason = "semantic" =>
                  \E k \in 1..Len(claims) :
                      /\ candidates[c].claimB = claims[k]
                      /\ SemanticallySimilar(k)
                      /\ ScoreEq(candidates[c].similarity, Cosine(k))

\* a returned semantic pair whose true similarity is none of the fixed scores,
\* next to a claim that also shares an entity with the query
C9_Witness ==
    /\ Generated
    /\ SemanticStepSucceeds
    /\ \E c \in 1..Len(candidates) : \E k \in 1..Len(claims) :
          /\ candidates[c].claimB = claims[k]
          /\ candidates[c].reason = "semantic"
          /\ SemanticallySimilar(k)
          /\ RankedBefore(k) >= 1
          /\ \A f \in FixedScores : ~ ScoreEq(candidates[c].similarity, f)
          /\ \E e1 \in Range(QueryClaim.entities) : \E e2 \in Range(claims[k].entities) :
                toLowerCase(e1) = toLowerCase(e2)

\* two strings that differ at most in the case of their letters
EqIgnoreCase(s1, s2) ==
    Len(s1) = Len(s2) /\ \A k \in 1..Len(s1) : ToLowerChar(s1[k]) = ToLowerChar(s2[k])

EntityCondition(a, b) ==
    \E e1 \in Range(a.entities) : \E e2 \in Range(b.entities) : EqIgnoreCase(e1, e2)

TopicCondition(a, b) == Range(a.topics) \cap Range(b.topics) # {}

\* first position of the run of digits that position p of str lies in
RunStart(str, p) ==
    CHOOSE r \in 1..p :
        /\ \A m \in r..p : IsDigit(str[m])
        /\ (r = 1 \/ ~ IsDigit(str[r - 1]))

\* the four-digit groups of a scope: every run of digits cut into groups of
\* four from its left end, incomplete groups dropped
YearTokens(str) ==
    IF str = None THEN {}
    ELSE {SubSeq(str, p, p + 3) :
            p \in {m \in 1..(Len(str) - 3) :
                    /\ \A d \in 0..3 : IsDigit(str[m + d])
                    /\ (m - RunStart(str, m)) % 4 = 0}}

TemporalCondition(a, b) ==
    /\ a.timeScope # None
    /\ YearTokens(a.timeScope) \cap YearTokens(b.timeScope) # {}

FirstSignal(a, b) ==
    IF EntityCondition(a, b) THEN "entity"
    ELSE IF TopicCondition(a, b) THEN "topic"
    ELSE IF TemporalCondition(a, b) THEN "temporal"
    ELSE "none"

SignalScore(reason) ==
    CASE reason = "entity" -> Decimal(8, 10)
      [] reason = "topic" -> Decimal(7, 10)
      [] reason = "temporal" -> Decimal(75, 100)
      [] OTHER -> ZeroScore

\* C10: a candidate not proposed by the semantic signal carries the tag and
\* the fixed score of the first of entity (0.8), topic (0.7), temporal (0.75)
\* whose condition it satisfies; a claim that satisfies none of the three
\* conditions and is not semantically similar is never a candidate.
C10_FirstSignalWins ==
    Generated =>
        /\ \A c \in 1..Len(candidates) :
              candidates[c].reason # "semantic" =>
                  /\ candidates[c].reason = FirstSignal(QueryClaim, candidates[c].claimB)
                  /\ candidates[c].similarity = SignalScore(candidates[c].reason)
        /\ \A k \in 1..Len(claims) :
              (FirstSignal(QueryClaim, claims[k]) = "none" /\ ~ SemanticallySimilar(k)) =>
                  \A c \in 1..Len(candidates) : candidates[c].claimB # claims[k]

\* fixed-score signals in one result: an entity candidate that shares its
\* entity only in another case, and a topic as well, beside a temporal
\* candidate; and a claim of another utterance left out for satisfying nothing
C10_Witness ==
    /\ Generated
    /\ \E c \in 1..Len(candidates) :
          /\ candidates[c].reason = "entity"
          /\ Range(QueryClaim.entities) \cap Range(candidates[c].claimB.entities) = {}
          /\ TopicCondition(QueryClaim, candidates[c].claimB)
    /\ \E c \in 1..Len(candidates) : candidates[c].reason = "temporal"
    /\ \E k \in 1..Len(claims) :
          /\ claims[k].utteranceId # QueryClaim.utteranceId
          /\ FirstSignal(QueryClaim, claims[k]) = "none"

(***************************************************************************)
(* Contradiction detector: the run of findContradictions.                  *)
(***************************************************************************)
\* UTF-16 order of the characters that occur in ids and pair keys
CharOrder == <<"-","0","1","2","3","4","5","6","7","8","9",":",
               "a","b","c","d","e","f">>

CharCode(c) == CHOOSE k \in 1..Len(CharOrder) : CharOrder[k] = c

RECURSIVE StringLess(_, _)
\* idA < idB on JavaScript strings
StringLess(a, b) ==
    IF b = <<>> THEN FALSE
    ELSE IF a = <<>> THEN TRUE
    ELSE IF Head(a) = Head(b) THEN StringLess(Tail(a), Tail(b))
    ELSE CharCode(Head(a)) < CharCode(Head(b))

\* the key that names the smaller id alone
getPairKeyOfSmaller(idA, idB) ==
    IF StringLess(idA, idB) THEN idA \o <<":">> \o idA ELSE idB \o <<":">> \o idB

\* the key without the ordering of the two ids
getPairKeyAsGiven(idA, idB) == idA \o <<":">> \o idB

getPairKey(idA, idB) ==
    IF StringLess(idA, idB) THEN idA \o <<":">> \o idB ELSE idB \o <<":">> \o idA

\* labels the classifier answers with; the three other contradiction types
\* take the same path as these two
JudgmentLabels == {"CONSISTENT", "HARD_CONTRADICTION", "SOFT_INCONSISTENCY"}

\* detectContradictionInPair refuses a pair without calling the classifier
RefusedPair(claimA, claimB) ==
    claimA.id = claimB.id \/ claimA.utteranceId = claimB.utteranceId

\* a record for every judgment, CONSISTENT included
JudgedPairAnyLabel(claimA, claimB, label) ==
    <<[claimA |-> claimA, claimB |-> claimB, type |-> label]>>

\* detectContradictionInPair after the judgment: null (no element) or a record
JudgedPair(claimA, claimB, label) ==
    IF label = "CONSISTENT" THEN <<>>
    ELSE <<[claimA |-> claimA, claimB |-> claimB, type |-> label]>>

Progress(current) ==
    [current |-> current, total |-> Len(claims), pairsAnalyzed |-> pairsAnalyzed,
     contradictionsFound |-> Len(contradictions)]

Init ==
    /\ \E n \in 1..MaxClaims : \E prof \in [1..n -> RunProfiles] :
          /\ claims = [k \in 1..n |-> ClaimOf(prof[k], k)]
          /\ embeddings \in {NoEmbeddings,
                             Embeddings([k \in 1..n |-> Profiles[prof[k]].embedding])}
    /\ topK \in 1..MaxTopK
    /\ threshold \in Thresholds
    /\ query = 0
    /\ i = 1 /\ j = 0
    /\ candidates = <<>>
    /\ pc = "loop"
    /\ alreadyCompared = {} /\ pairsAnalyzed = 0 /\ contradictions = <<>>
    /\ calls = <<>> /\ progressLog = <<>> /\ returned = <<>>
    /\ IdleSegmenter
    /\ IdleApp
    /\ suspended = NoFrame
    /\ IdleLoop
    /\ IdleStorage
    /\ input = NoInput

\* loop head: progress callback, then the candidates of claim i
AtLoopHead == pc = "loop" /\ i <= Len(claims)
AtCandidate == pc = "candidates" /\ j <= Len(candidates)
AwaitingClassifier == pc = "classifying"
CandidatesExhausted == pc = "candidates" /\ j > Len(candidates)
LoopExhausted == pc = "loop" /\ i > Len(claims)

\* the run has a next step
CanStep ==
    AtLoopHead \/ AtCandidate \/ AwaitingClassifier \/ CandidatesExhausted \/ LoopExhausted

NextClaim ==
    /\ AtLoopHead
    /\ progressLog' = Append(progressLog, Progress(i))
    /\ candidates' = generateCandidates(claims[i], claims,
                                        ClaimsWithEmbeddings(claims, embeddings),
                                        topK, threshold)
    /\ j' = 1
    /\ pc' = "candidates"
    /\ UNCHANGED <<claims, embeddings, topK, threshold, query, i, alreadyCompared,
                   pairsAnalyzed, contradictions, calls, returned, rawText, utterances, appVars, suspended, input, segmenterVars, storageVars>>

CurrentKey == getPairKey(candidates[j].claimA.id, candidates[j].claimB.id)

\* the skip of a compared pair with pairsAnalyzed++ placed before the test
SkipComparedCounted ==
    /\ AtCandidate
    /\ CurrentKey \in alreadyCompared
    /\ pairsAnalyzed' = pairsAnalyzed + 1
    /\ j' = j + 1
    /\ UNCHANGED <<claims, embeddings, topK, threshold, query, i, candidates, pc,
                   alreadyCompared, contradictions, calls, progressLog,
                   returned, rawText, utterances, appVars, suspended, input, segmenterVars, storageVars>>

\* if (alreadyCompared.has(pairKey)) continue
SkipCompared ==
    /\ AtCandidate
    /\ CurrentKey \in alreadyCompared
    /\ j' = j + 1
    /\ UNCHANGED <<claims, embeddings, topK, threshold, query, i, candidates, pc,
                   alreadyCompared, pairsAnalyzed, contradictions, calls, progressLog,
                   returned, rawText, utterances, appVars, suspended, input, segmenterVars, storageVars>>

\* the pair handed to the classifier without awaiting the answer
SubmitPairNoAwait ==
    /\ AtCandidate
    /\ CurrentKey \notin alreadyCompared
    /\ alreadyCompared' = alreadyCompared \cup {CurrentKey}
    /\ pairsAnalyzed' = pairsAnalyzed + 1
    /\ j' = j + 1
    /\ IF RefusedPair(candidates[j].claimA, candidates[j].claimB)
       THEN UNCHANGED calls
       ELSE calls' = Append(calls, [claimA |-> candidates[j].claimA,
                                    claimB |-> candidates[j].claimB,
                                    by |-> i, rank |-> j, outcome |-> "pending"])
    /\ UNCHANGED <<claims, embeddings, topK, threshold, query, i, candidates, pc,
                   contradictions, progressLog, returned, rawText, utterances, appVars, suspended, input, segmenterVars, storageVars>>

\* a new pair key: recorded, counted, and the pair handed to
\* detectContradictionInPair, which calls the classifier unless it refuses
SubmitPair ==
    /\ AtCandidate
    /\ CurrentKey \notin alreadyCompared
    /\ alreadyCompared' = alreadyCompared \cup {CurrentKey}
    /\ pairsAnalyzed' = pairsAnalyzed + 1
    /\ IF RefusedPair(candidates[j].claimA, candidates[j].claimB)
       THEN /\ j' = j + 1
            /\ UNCHANGED <<pc, calls>>
       ELSE /\ calls' = Append(calls, [claimA |-> candidates[j].claimA,
                                       claimB |-> candidates[j].claimB,
                                       by |-> i, rank |-> j, outcome |-> "pending"])
            /\ pc' = "classifying"
            /\ UNCHANGED j
    /\ UNCHANGED <<claims, embeddings, topK, threshold, query, i, candidates,
                   contradictions, progressLog, returned, rawText, utterances, appVars, suspended, input, segmenterVars, storageVars>>

Settle(outcome) == [calls EXCEPT ![Len(calls)].outcome = outcome]

\* the classifier answers: the record, if any, is pushed; sleep; next candidate
ClassifierReturns ==
    /\ AwaitingClassifier
    /\ \E label \in JudgmentLabels :
          /\ calls' = Settle(label)
          /\ contradictions' = contradictions \o
                JudgedPair(candidates[j].claimA, candidates[j].claimB, label)
    /\ j' = j + 1
    /\ pc' = "candidates"
    /\ UNCHANGED <<claims, embeddings, topK, threshold, query, i, candidates,
                   alreadyCompared, pairsAnalyzed, progressLog, returned,
                   rawText, utterances, appVars, suspended, input, segmenterVars, storageVars>>

\* the classifier call throws and nothing catches it
ClassifierFailsUncaught ==
    /\ AwaitingClassifier
    /\ calls' = Settle("failed")
    /\ pc' = "rejected"
    /\ UNCHANGED <<claims, embeddings, topK, threshold, query, i, j, candidates,
                   alreadyCompared, pairsAnalyzed, contradictions, progressLog,
                   returned, rawText, utterances, appVars, suspended, input, segmenterVars, storageVars>>

\* the classifier call throws: caught by the try around the work of claim i
ClassifierFails ==
    /\ AwaitingClassifier
    /\ calls' = Settle("failed")
    /\ i' = i + 1
    /\ pc' = "loop"
    /\ UNCHANGED <<claims, embeddings, topK, threshold, query, j, candidates,
                   alreadyCompared, pairsAnalyzed, contradictions, progressLog,
                   returned, rawText, utterances, appVars, suspended, input, segmenterVars, storageVars>>

\* the candidates of claim i are exhausted
ClaimDone ==
    /\ CandidatesExhausted
    /\ i' = i + 1
    /\ pc' = "loop"
    /\ UNCHANGED <<claims, embeddings, topK, threshold, query, j, candidates,
                   alreadyCompared, pairsAnalyzed, contradictions, calls, progressLog,
                   returned, rawText, utterances, appVars, suspended, input, segmenterVars, storageVars>>

\* after the loop: the final progress callback and the return
Finish ==
    /\ LoopExhausted
    /\ progressLog' = Append(progressLog, Progress(Len(claims)))
    /\ returned' = contradictions
    /\ pc' = "done"
    /\ UNCHANGED <<claims, embeddings, topK, threshold, query, i, j, candidates,
                   alreadyCompared, pairsAnalyzed, contradictions, calls,
                   rawText, utterances, appVars, suspended, input, segmenterVars, storageVars>>

Next ==
    \/ NextClaim
    \/ SkipCompared
    \/ SubmitPair
    \/ ClassifierReturns
    \/ ClassifierFails
    \/ ClaimDone
    \/ Finish

Spec == Init /\ [][Next]_vars

(***************************************************************************)
(* Properties of a findContradictions run (Spec).                          *)
(***************************************************************************)
\* the unordered pair of claim ids of a candidate, call or contradiction
IdPair(r) == {r.claimA.id, r.claimB.id}

\* C1: in one run each unordered pair of claim ids is submitted to the
\* classifier at most once, whoever proposed it and whatever became of the
\* first attempt.
C1_AtMostOncePerPair ==
    \A c, d \in 1..Len(calls) : c # d => IdPair(calls[c]) # IdPair(calls[d])

\* a pair whose classification failed is proposed again, from the other side,
\* and is about to be skipped
C1_Witness ==
    /\ pc = "candidates" /\ j <= Len(candidates)
    /\ \E c \in 1..Len(calls) :
          /\ calls[c].outcome = "failed"
          /\ calls[c].claimA = candidates[j].claimB
          /\ calls[c].claimB = candidates[j].claimA
          /\ calls[c].by < i

\* what generateCandidates returned for the k-th claim of this run
CandidatesOf(k) ==
    generateCandidates(claims[k], claims, ClaimsWithEmbeddings(claims, embeddings),
                       topK, threshold)

\* C2: when the classifier fails for one candidate pair of a claim, every
\* remaining candidate pair of that claim is still submitted (by then, if not
\* before), and every later claim is still processed.
C2_FailureSkipsOnlyThePair ==
    pc = "done" =>
        /\ \A c \in 1..Len(calls) :
              calls[c].outcome = "failed" =>
                  \A r \in (calls[c].rank + 1)..Len(CandidatesOf(calls[c].by)) :
                      \E d \in 1..Len(calls) :
                          /\ IdPair(calls[d]) = IdPair(CandidatesOf(calls[c].by)[r])
                          /\ calls[d].by <= calls[c].by
        /\ \A k \in 1..Len(claims) :
              \E p \in 1..Len(progressLog) : progressLog[p].current = k

\* C3: two claims of the same utterance (a claim and itself included) are
\* never paired by generateCandidates and never handed to the classifier.
C3_NeverSameUtterance ==
    /\ \A c \in 1..Len(candidates) :
          /\ candidates[c].claimA.utteranceId # candidates[c].claimB.utteranceId
          /\ candidates[c].claimA.id # candidates[c].claimB.id
    /\ \A c \in 1..Len(calls) :
          /\ calls[c].claimA.utteranceId # calls[c].claimB.utteranceId
          /\ calls[c].claimA.id # calls[c].claimB.id

\* a run over claims that share an utterance and match on entity, topic
\* and time, in which candidates were found and the classifier was called
C3_Witness ==
    /\ \E a, b \in 1..Len(claims) :
          /\ a # b
          /\ claims[a].utteranceId = claims[b].utteranceId
          /\ EntityCondition(claims[a], claims[b])
          /\ TopicCondition(claims[a], claims[b])
          /\ a = i
    /\ candidates # <<>>
    /\ calls # <<>>

\* the records that the settled calls account for, in call order
RECURSIVE RecordsOf(_)
RecordsOf(log) ==
    IF log = <<>> THEN <<>>
    ELSE LET c == log[Len(log)]
         IN  RecordsOf(SubSeq(log, 1, Len(log) - 1)) \o
             (IF c.outcome \in {"pending", "failed", "CONSISTENT"} THEN <<>>
              ELSE <<[claimA |-> c.claimA, claimB |-> c.claimB, type |-> c.outcome]>>)

\* C4: findContradictions never propagates a failure.  Whatever calls fail,
\* the run is never rejected and never stuck; it ends with the final progress
\* callback and returns the list; a failed pair has no record, and the
\* records collected are those of the answered calls, untouched by failures.
C4_FailuresAreIsolated ==
    /\ pc \in {"loop", "candidates", "classifying", "done"}
    /\ pc # "done" => CanStep
    /\ pc = "done" =>
          /\ returned = contradictions
          /\ progressLog # <<>>
          /\ progressLog[Len(progressLog)] =
                [current |-> Len(claims), total |-> Len(claims),
                 pairsAnalyzed |-> pairsAnalyzed,
                 contradictionsFound |-> Len(returned)]
    /\ \A c \in 1..Len(calls) :
          calls[c].outcome = "failed" =>
              \A r \in 1..Len(contradictions) :
                  IdPair(contradictions[r]) # IdPair(calls[c])
    /\ contradictions = RecordsOf(calls)

\* a finished run in which a call failed after a contradiction had been
\* collected, and another contradiction was collected after the failure
C4_Witness ==
    /\ pc = "done"
    /\ \E c1, c2, c3 \in 1..Len(calls) :
          /\ c1 < c2 /\ c2 < c3
          /\ calls[c1].outcome = "HARD_CONTRADICTION"
          /\ calls[c2].outcome = "failed"
          /\ calls[c3].outcome = "SOFT_INCONSISTENCY"
    /\ Len(returned) = 2

\* C5: the returned list has a Contradiction for an unordered pair exactly
\* when the classifier was invoked on that pair in this run and answered
\* with a label other than CONSISTENT; the record's type is that label, and
\* no unordered pair has more than one record.
C5_RecordsMatchJudgments ==
    pc = "done" =>
        /\ \A r \in 1..Len(returned) :
              \E c \in 1..Len(calls) :
                  /\ IdPair(calls[c]) = IdPair(returned[r])
                  /\ calls[c].outcome \notin {"CONSISTENT", "failed", "pending"}
                  /\ returned[r].type = calls[c].outcome
        /\ \A c \in 1..Len(calls) :
              calls[c].outcome \notin {"CONSISTENT", "failed", "pending"} =>
                  \E r \in 1..Len(returned) :
                      /\ IdPair(returned[r]) = IdPair(calls[c])
                      /\ returned[r].type = calls[c].outcome
        /\ \A r, q \in 1..Len(returned) :
              r # q => IdPair(returned[r]) # IdPair(returned[q])

\* a finished run with a contradiction, a consistent pair and a failed pair
C5_Witness ==
    /\ pc = "done"
    /\ returned # <<>>
    /\ \E c \in 1..Len(calls) : calls[c].outcome = "CONSISTENT"
    /\ \E c \in 1..Len(calls) : calls[c].outcome = "failed"

(***************************************************************************)
(* Transcript segmenter: strings and regular expressions.                  *)
(* A position is the number of characters before it (0-based, as in        *)
(* JavaScript); a match is a record with the length of match[0] and the    *)
(* captured groups.                                                        *)
(***************************************************************************)
\* the characters \s matches that occur in a transcript line
WhiteSpace == {" ", "\t"}

Letters == Range(UpperChars) \cup Range(LowerChars)

DigitChars == <<"0","1","2","3","4","5","6","7","8","9">>

\* String.prototype.toUpperCase, one character
ToUpperChar(c) ==
    IF \E k \in 1..26 : LowerChars[k] = c
    THEN UpperChars[CHOOSE k \in 1..26 : LowerChars[k] = c]
    ELSE c

\* String.prototype.toUpperCase
toUpperCase(s) == [k \in 1..Len(s) |-> ToUpperChar(s[k])]

RECURSIVE parseInt(_)
\* parseInt(ds, 10) of a non-empty run of digits
parseInt(ds) ==
    IF ds = <<>> THEN 0
    ELSE parseInt(SubSeq(ds, 1, Len(ds) - 1)) * 10
         + (CHOOSE d \in 0..9 : DigitChars[d + 1] = ds[Len(ds)])

RECURSIVE NumberToString(_)
\* `${n}` of a natural number
NumberToString(n) ==
    IF n < 10 THEN <<DigitChars[n + 1]>>
    ELSE NumberToString(n \div 10) \o <<DigitChars[(n % 10) + 1]>>

\* String.prototype.substring(from)
Substring(s, from) == SubSeq(s, from + 1, Len(s))

RECURSIVE SkipIn(_, _, _)
\* position after the longest run of characters of set that starts at p
\* (a greedy X* of a regular expression)
SkipIn(s, p, set) ==
    IF p < Len(s) /\ s[p + 1] \in set THEN SkipIn(s, p + 1, set) ELSE p

RECURSIVE trimEnd(_)
trimEnd(s) ==
    IF s # <<>> /\ s[Len(s)] \in WhiteSpace
    THEN trimEnd(SubSeq(s, 1, Len(s) - 1))
    ELSE s

\* String.prototype.trim
trim(s) == trimEnd(Substring(s, SkipIn(s, 0, WhiteSpace)))

\* the literal lit, compared without case (flag i), occurs in s at position p
StartsWithAt(s, p, lit) ==
    /\ p + Len(lit) <= Len(s)
    /\ toLowerCase(SubSeq(s, p + 1, p + Len(lit))) = toLowerCase(lit)

\* position after the optional prefix (?:---\s*|\[\s*)? of the page marker
PagePrefixEnd(line) ==
    IF StartsWithAt(line, 0, <<"-","-","-">>) THEN SkipIn(line, 3, WhiteSpace)
    ELSE IF StartsWithAt(line, 0, <<"[">>) THEN SkipIn(line, 1, WhiteSpace)
    ELSE 0

\* line.match(/^(?:---\s*|\[\s*)?Page\s+(\d+)(?:\s*---|\s*\])?/i)
pageMatch(line) ==
    LET p0 == PagePrefixEnd(line)
        p1 == p0 + 4
        p2 == SkipIn(line, p1, WhiteSpace)
        p3 == SkipIn(line, p2, Digits)
    IN  IF StartsWithAt(line, p0, <<"P","a","g","e">>) /\ p2 > p1 /\ p3 > p2
        THEN [matched |-> TRUE, g1 |-> SubSeq(line, p2 + 1, p3)]
        ELSE [matched |-> FALSE, g1 |-> <<>>]

\* line.match(/^\s*(\d+)\.?\s+(Q\.|A\.|Q:|A:)/i); the match starts at index 0
lineNumberMatch(line) ==
    LET p0 == SkipIn(line, 0, WhiteSpace)
        p1 == SkipIn(line, p0, Digits)
        p2 == IF p1 < Len(line) /\ line[p1 + 1] = "." THEN p1 + 1 ELSE p1
        p3 == SkipIn(line, p2, WhiteSpace)
    IN  IF /\ p1 > p0 /\ p3 > p2 /\ p3 + 2 <= Len(line)
           /\ ToLowerChar(line[p3 + 1]) \in {"q", "a"}
           /\ line[p3 + 2] \in {".", ":"}
        THEN [matched |-> TRUE, len |-> p3 + 2, g1 |-> SubSeq(line, p0 + 1, p1),
              g2 |-> SubSeq(line, p3 + 1, p3 + 2)]
        ELSE [matched |-> FALSE, len |-> 0, g1 |-> <<>>, g2 |-> <<>>]

\* text.match(/^WORD[.:]?\s*/i)
MarkerMatch(text, word) ==
    LET p1 == Len(word)
        p2 == IF p1 < Len(text) /\ text[p1 + 1] \in {".", ":"} THEN p1 + 1 ELSE p1
        p3 == SkipIn(text, p2, WhiteSpace)
    IN  IF StartsWithAt(text, 0, word)
        THEN [matched |-> TRUE, len |-> p3]
        ELSE [matched |-> FALSE, len |-> 0]

qMatch(text) == MarkerMatch(text, <<"Q">>)
aMatch(text) == MarkerMatch(text, <<"A">>)
questionMatch(text) == MarkerMatch(text, <<"Q","U","E","S","T","I","O","N">>)
answerMatch(text) == MarkerMatch(text, <<"A","N","S","W","E","R">>)

\* the alternatives of (MR\.|MS\.|THE|DR\.)
SpeakerTitles == {<<"M","R",".">>, <<"M","S",".">>, <<"T","H","E">>, <<"D","R",".">>}

\* text.match(/^(MR\.|MS\.|THE|DR\.)\s+([A-Z]+)[.:]?\s*/i)
speakerMatch(text) ==
    LET p1 == 3
        p2 == SkipIn(text, p1, WhiteSpace)
        p3 == SkipIn(text, p2, Letters)
        p4 == IF p3 < Len(text) /\ text[p3 + 1] \in {".", ":"} THEN p3 + 1 ELSE p3
        p5 == SkipIn(text, p4, WhiteSpace)
    IN  IF /\ \E t \in SpeakerTitles : StartsWithAt(text, 0, t)
           /\ p2 > p1 /\ p3 > p2
        THEN [matched |-> TRUE, len |-> p5, g1 |-> SubSeq(text, 1, 3),
              g2 |-> SubSeq(text, p2 + 1, p3)]
        ELSE [matched |-> FALSE, len |-> 0, g1 |-> <<>>, g2 |-> <<>>]

\* the patterns of headerPatterns that are a literal prefix (flag i)
HeaderPrefixes ==
    {<<"D","E","P","O","S","I","T","I","O","N"," ","O","F">>,
     <<"C","a","s","e"," ","N","o",".">>,
     <<"D","a","t","e",":">>,
     <<"E","X","A","M","I","N","A","T","I","O","N"," ","B","Y">>,
     <<"C","R","O","S","S","-","E","X","A","M","I","N","A","T","I","O","N"," ","B","Y">>,
     <<"R","E","D","I","R","E","C","T"," ","E","X","A","M","I","N","A","T","I","O","N"," ","B","Y">>,
     <<"R","E","C","R","O","S","S","-","E","X","A","M","I","N","A","T","I","O","N"," ","B","Y">>,
     <<"S","T","I","P","U","L","A","T","I","O","N","S">>,
     <<"E","X","H","I","B","I","T","S">>,
     <<"W","H","E","R","E","U","P","O","N">>}

isHeaderLine(text) ==
    \/ \E h \in HeaderPrefixes : StartsWithAt(text, 0, h)
    \* /^\(.*\)$/
    \/ Len(text) >= 2 /\ text[1] = "(" /\ text[Len(text)] = ")"
    \* /^---+$/
    \/ Len(text) >= 3 /\ \A k \in 1..Len(text) : text[k] = "-"

(***************************************************************************)
(* Transcript segmenter: line tagging and utterance extraction.            *)
(* The document text is kept as text.split('\n'), a sequence of lines.     *)
(***************************************************************************)
\* an optional number (lineNumber?, lineEnd?, charStart?)
Num(n) == [defined |-> TRUE, n |-> n]
UndefinedNum == [defined |-> FALSE, n |-> 0]

RECURSIVE ParseFrom(_, _, _, _, _)
\* the loop of parseIntoLines from line k on
ParseFrom(textLines, k, currentPage, charOffset, lines) ==
    IF k > Len(textLines) THEN lines
    ELSE
      LET line == textLines[k]
          pm == pageMatch(line)
          lm == lineNumberMatch(line)
          lineNumber == IF lm.matched THEN Num(parseInt(lm.g1)) ELSE UndefinedNum
          cleanText == IF lm.matched THEN trim(Substring(line, lm.len))
                       ELSE trim(line)
      IN  IF pm.matched
          THEN ParseFrom(textLines, k + 1, parseInt(pm.g1),
                         charOffset + Len(line) + 1, lines)
          ELSE ParseFrom(textLines, k + 1, currentPage,
                         charOffset + Len(line) + 1,
                         IF Len(cleanText) > 0
                         THEN Append(lines, [pageNumber |-> currentPage,
                                             lineNumber |-> lineNumber,
                                             text |-> cleanText,
                                             charOffset |-> charOffset])
                         ELSE lines)

parseIntoLines(textLines) == ParseFrom(textLines, 1, 1, 0, <<>>)

formatCitation(anchor) ==
    IF anchor.lineStart.defined
    THEN IF anchor.lineEnd.defined /\ anchor.lineEnd # anchor.lineStart
         THEN <<"P","a","g","e"," ">> \o NumberToString(anchor.page) \o <<","," ","L","i","n","e","s"," ">>
              \o NumberToString(anchor.lineStart.n) \o <<"-">>
              \o NumberToString(anchor.lineEnd.n)
         ELSE <<"P","a","g","e"," ">> \o NumberToString(anchor.page) \o <<","," ","L","i","n","e"," ">>
              \o NumberToString(anchor.lineStart.n)
    ELSE IF anchor.charStart.defined
         THEN <<"P","a","g","e"," ">> \o NumberToString(anchor.page) \o <<","," ","P","o","s","i","t","i","o","n"," ">>
              \o NumberToString(anchor.charStart.n)
         ELSE <<"P","a","g","e"," ">> \o NumberToString(anchor.page)

RECURSIVE JoinTexts(_)
\* lines.map(l => l.text).filter(t => t.length > 0).join(' ')
JoinTexts(lines) ==
    IF lines = <<>> THEN <<>>
    ELSE LET rest == JoinTexts(Tail(lines))
         IN  IF Len(Head(lines).text) = 0 THEN rest
             ELSE IF rest = <<>> THEN Head(lines).text
             ELSE Head(lines).text \o <<" ">> \o rest

\* createUtterance with an anchor that never carries charStart
createUtteranceWithoutCharStart(utterance) ==
    LET firstLine == utterance.lines[1]
        lastLine == utterance.lines[Len(utterance.lines)]
        lineStart == firstLine.lineNumber
        lineEnd == lastLine.lineNumber
    IN  [pageNumber |-> firstLine.pageNumber,
         lineStart |-> lineStart,
         lineEnd |-> lineEnd,
         speaker |-> IF utterance.role = "QUESTION" THEN "Attorney" ELSE "Witness",
         role |-> utterance.role,
         text |-> trim(JoinTexts(utterance.lines)),
         citation |-> formatCitation(
             [page |-> firstLine.pageNumber,
              lineStart |-> lineStart,
              lineEnd |-> IF lineEnd # lineStart THEN lineEnd ELSE UndefinedNum,
              charStart |-> UndefinedNum])]

\* the fields id, documentId and timestamp are left out
createUtterance(utterance) ==
    LET firstLine == utterance.lines[1]
        lastLine == utterance.lines[Len(utterance.lines)]
        lineStart == firstLine.lineNumber
        lineEnd == lastLine.lineNumber
    IN  [pageNumber |-> firstLine.pageNumber,
         lineStart |-> lineStart,
         lineEnd |-> lineEnd,
         speaker |-> IF utterance.role = "QUESTION" THEN "Attorney" ELSE "Witness",
         role |-> utterance.role,
         text |-> trim(JoinTexts(utterance.lines)),
         citation |-> formatCitation(
             [page |-> firstLine.pageNumber,
              lineStart |-> lineStart,
              lineEnd |-> IF lineEnd # lineStart THEN lineEnd ELSE UndefinedNum,
              charStart |-> IF ~lineStart.defined THEN Num(firstLine.charOffset)
                            ELSE UndefinedNum])]

\* currentUtterance before the first marker
NoUtterance == [role |-> "null", lines |-> <<>>, startLine |-> UndefinedNum]

\* "Save previous utterance if exists"
SavePrevious(current, out) ==
    IF current.role # "null" /\ Len(current.lines) > 0
    THEN Append(out, createUtterance(current))
    ELSE out

\* the utterance a marker line opens; len is match[0].length
StartUtterance(role, line, len) ==
    [role |-> role,
     lines |-> <<[line EXCEPT !.text = trim(Substring(line.text, len))]>>,
     startLine |-> line.lineNumber]

\* isWitness without the alternation with the open utterance
isWitnessByTitle(sm, current) ==
    \/ toUpperCase(sm.g1) = <<"T","H","E">>
    \/ toUpperCase(sm.g2) = <<"W","I","T","N","E","S","S">>

\* isWitness of a speaker line
isWitness(sm, current) ==
    \/ toUpperCase(sm.g1) = <<"T","H","E">>
    \/ toUpperCase(sm.g2) = <<"W","I","T","N","E","S","S">>
    \/ current.role = "QUESTION"

\* the loop body that appends every line that is no marker, headers included
SegmentLineKeepsHeaders(line, current, out) ==
    LET qm == qMatch(line.text)
        am == aMatch(line.text)
        questionm == questionMatch(line.text)
        answerm == answerMatch(line.text)
        sm == speakerMatch(line.text)
    IN  IF qm.matched \/ questionm.matched
        THEN [current |-> StartUtterance("QUESTION", line,
                              IF qm.matched THEN qm.len ELSE questionm.len),
              out |-> SavePrevious(current, out)]
        ELSE IF am.matched \/ answerm.matched
        THEN [current |-> StartUtterance("ANSWER", line,
                              IF am.matched THEN am.len ELSE answerm.len),
              out |-> SavePrevious(current, out)]
        ELSE IF sm.matched
        THEN [current |-> StartUtterance(IF isWitness(sm, current)
                                         THEN "ANSWER" ELSE "QUESTION",
                                         line, sm.len),
              out |-> SavePrevious(current, out)]
        ELSE IF current.role # "null"
        THEN [current |-> [current EXCEPT !.lines = Append(@, line)],
              out |-> out]
        ELSE [current |-> current, out |-> out]

\* one pass of the loop body of extractUtterances over a tagged line: the
\* utterance buffered afterwards and the utterances pushed so far
SegmentLine(line, current, out) ==
    LET qm == qMatch(line.text)
        am == aMatch(line.text)
        questionm == questionMatch(line.text)
        answerm == answerMatch(line.text)
        sm == speakerMatch(line.text)
    IN  IF qm.matched \/ questionm.matched
        THEN [current |-> StartUtterance("QUESTION", line,
                              IF qm.matched THEN qm.len ELSE questionm.len),
              out |-> SavePrevious(current, out)]
        ELSE IF am.matched \/ answerm.matched
        THEN [current |-> StartUtterance("ANSWER", line,
                              IF am.matched THEN am.len ELSE answerm.len),
              out |-> SavePrevious(current, out)]
        ELSE IF sm.matched
        THEN [current |-> StartUtterance(IF isWitness(sm, current)
                                         THEN "ANSWER" ELSE "QUESTION",
                                         line, sm.len),
              out |-> SavePrevious(current, out)]
        ELSE IF current.role # "null" /\ ~isHeaderLine(line.text)
        THEN [current |-> [current EXCEPT !.lines = Append(@, line)],
              out |-> out]
        ELSE [current |-> current, out |-> out]

RECURSIVE SegmentFrom(_, _, _, _)
\* the loop of extractUtterances from tagged line k on, then the last flush
SegmentFrom(lines, k, current, out) ==
    IF k > Len(lines) THEN SavePrevious(current, out)
    ELSE LET after == SegmentLine(lines[k], current, out)
         IN  SegmentFrom(lines, k + 1, after.current, after.out)

extractUtterances(textLines) ==
    SegmentFrom(parseIntoLines(textLines), 1, NoUtterance, <<>>)

(***************************************************************************)
(* Transcripts tried, and the specification of one extractUtterances call. *)
(***************************************************************************)
\* lines a deposition transcript is made of
LinePool ==
    <<<<"P","a","g","e"," ","2">>,
      <<"1"," ","Q","."," ","H","i","?">>,
      <<"2"," ","A","."," ","N","o",".">>,
      <<"Q","."," ","W","h","o","?">>,
      <<"A","."," ","M","e",".">>,
      <<"A","n","d"," ","s","o",".">>,
      <<"s","o"," ","o","n",".">>,
      <<"(","N","o","d",")">>,
      <<>>,
      <<"M","R","."," ","X",":"," ","O","k">>,
      <<"T","H","E"," ","W","I","T","N","E","S","S",":"," ","I">>,
      <<"Q",".">>>>

\* the numbered transcript: a page marker, then two questions and two answers
NumberedScenario ==
    <<<<"P","a","g","e"," ","1">>,
      <<"1"," ","Q","."," ","W","e","r","e"," ","y","o","u"," ","p","r","e","s","e","n","t","?">>,
      <<"2"," ","A","."," ","Y","e","s",","," ","I"," ","w","a","s"," ","t","h","e","r","e"," ","t","h","e"," ","w","h","o","l","e"," ","t","i","m","e",".">>,
      <<"1"," ","Q","."," ","W","e","r","e"," ","y","o","u"," ","p","r","e","s","e","n","t"," ","a","t"," ","3","p","m","?">>,
      <<"2"," ","A","."," ","N","o",","," ","I"," ","w","a","s"," ","n","o","t"," ","t","h","e","r","e"," ","a","t"," ","t","h","a","t"," ","t","i","m","e",".">>>>

InitSeg ==
    /\ \/ \E n \in 1..MaxLines : \E pick \in [1..n -> 1..Len(LinePool)] :
             rawText = [k \in 1..n |-> LinePool[pick[k]]]
       \/ rawText = NumberedScenario
    /\ utterances = <<>>
    /\ pc = "segment"
    /\ claims = <<>> /\ embeddings = NoEmbeddings
    /\ topK = 0 /\ threshold = ZeroScore /\ query = 0
    /\ candidates = <<>>
    /\ IdleDetector
    /\ IdleApp
    /\ suspended = NoFrame
    /\ IdleLoop
    /\ IdleStorage
    /\ input = NoInput

SegmentCall ==
    /\ pc = "segment"
    /\ utterances' = extractUtterances(rawText)
    /\ pc' = "segmented"
    /\ UNCHANGED <<claims, embeddings, topK, threshold, query, i, j,
                   candidates, alreadyCompared, pairsAnalyzed, contradictions,
                   calls, progressLog, returned, rawText, appVars, suspended, input, segmenterVars, storageVars>>

NextSeg == SegmentCall

SpecSeg == InitSeg /\ [][NextSeg]_vars

(***************************************************************************)
(* Properties of one extractUtterances call (SpecSeg).                     *)
(***************************************************************************)
Segmented == pc = "segmented"

\* a line made of a leading integer, whitespace and a Q. or A. marker
\* followed by text
NumberedMarkerLine(line) ==
    /\ ~pageMatch(line).matched
    /\ lineNumberMatch(line).matched
    /\ toUpperCase(lineNumberMatch(line).g2) \in {<<"Q",".">>, <<"A",".">>}
    /\ trim(Substring(line, lineNumberMatch(line).len)) # <<>>

\* the role the marker of a numbered marker line stands for
NumberedMarkerRole(line) ==
    IF toUpperCase(lineNumberMatch(line).g2) = <<"Q",".">> THEN "QUESTION" ELSE "ANSWER"

IsPrefix(p, s) == Len(p) <= Len(s) /\ SubSeq(s, 1, Len(p)) = p

AnswerUtterances == {u \in 1..Len(utterances) : utterances[u].role = "ANSWER"}

\* C6: a transcript line made of a leading integer n, whitespace and a Q. or
\* A. marker followed by text opens a new QUESTION or ANSWER utterance with
\* lineStart = n and the text after the marker; the numbered scenario (page
\* marker "Page 1", then two Q lines and two A lines) yields exactly 2
\* ANSWER utterances.
C6_NumberedLineOpensUtterance ==
    Segmented =>
        /\ \A k \in 1..Len(rawText) :
              NumberedMarkerLine(rawText[k]) =>
                  \E u \in 1..Len(utterances) :
                      /\ utterances[u].role = NumberedMarkerRole(rawText[k])
                      /\ utterances[u].lineStart =
                             Num(parseInt(lineNumberMatch(rawText[k]).g1))
                      /\ IsPrefix(trim(Substring(rawText[k],
                                                 lineNumberMatch(rawText[k]).len)),
                                  utterances[u].text)
        /\ rawText = NumberedScenario => Cardinality(AnswerUtterances) = 2

\* a line that begins with a well-formed Q. or A. marker followed by text
WellFormedMarkerLine(line) ==
    /\ Len(line) >= 4
    /\ line[1] \in {"Q", "A"} /\ line[2] = "." /\ line[3] = " "
    /\ trim(Substring(line, 2)) # <<>>

\* a line of plain text: not empty, and no page marker, numbered line,
\* speaker header, header pattern or punctuated marker
ContinuationLine(line) ==
    /\ trim(line) # <<>>
    /\ ~pageMatch(line).matched
    /\ ~lineNumberMatch(line).matched
    /\ ~speakerMatch(trim(line)).matched
    /\ ~isHeaderLine(trim(line))
    /\ ~questionMatch(trim(line)).matched
    /\ ~answerMatch(trim(line)).matched
    /\ \A w \in {<<"Q">>, <<"A">>} : MarkerMatch(trim(line), w).len < 2

RECURSIVE MarkerRoles(_)
\* the roles of the well-formed marker lines of a transcript, in order
MarkerRoles(textLines) ==
    IF textLines = <<>> THEN <<>>
    ELSE IF WellFormedMarkerLine(Head(textLines))
         THEN <<IF Head(textLines)[1] = "Q" THEN "QUESTION" ELSE "ANSWER">>
              \o MarkerRoles(Tail(textLines))
         ELSE MarkerRoles(Tail(textLines))

\* C7: for a transcript whose lines each either begin with a well-formed Q.
\* or A. marker followed by text or are continuation text, extractUtterances
\* returns exactly as many utterances as there are marker lines, the k-th
\* with the role of the k-th marker, each with non-empty text.
C7_OneUtterancePerMarker ==
    (/\ Segmented
     /\ \A k \in 1..Len(rawText) :
           WellFormedMarkerLine(rawText[k]) \/ ContinuationLine(rawText[k]))
    => /\ Len(utterances) = Len(MarkerRoles(rawText))
       /\ \A u \in 1..Len(utterances) :
             /\ utterances[u].role = MarkerRoles(rawText)[u]
             /\ utterances[u].text # <<>>

(***************************************************************************)
(* Properties of one generateCandidates call (SpecGen), continued.         *)
(***************************************************************************)
\* the semantic step of this call throws: embeddings were passed, and the
\* query or a claim of another utterance has no embedding, or the two
\* embeddings differ in length
SemanticStepFails ==
    /\ embeddings.given
    /\ \E k \in 1..Len(claims) :
          /\ claims[k].utteranceId # QueryClaim.utteranceId
          /\ ~ (HasEmbedding(query) /\ Eligible(k))

\* C11: if the semantic step fails for a claim (missing or malformed
\* embedding, vector length mismatch), generateCandidates does not fail: it
\* returns what the entity, topic and temporal signals alone produce for that
\* claim (the result of the same call without embeddings), and no candidate
\* has reason semantic.
C11_SemanticFailureFallsBack ==
    Generated /\ SemanticStepFails =>
        /\ candidates = generateCandidates(QueryClaim, claims, <<>>, topK, threshold)
        /\ \A k \in 1..Len(candidates) :
              /\ candidates[k].reason \in {"entity", "topic", "temporal"}
              /\ candidates[k].similarity \in FixedScores

\* a call whose semantic step failed on a malformed embedding while another
\* claim was similar enough to be a semantic candidate; that claim is
\* returned with a fixed score
C11_Witness ==
    /\ Generated
    /\ SemanticStepFails
    /\ HasEmbedding(query)
    /\ \E k \in 1..Len(claims) :
          /\ claims[k].utteranceId # QueryClaim.utteranceId
          /\ HasEmbedding(k)
          /\ Len(embeddings.list[k].v) # Len(embeddings.list[query].v)
    /\ \E k \in 1..Len(claims) :
          /\ SemanticallySimilar(k)
          /\ \E c \in 1..Len(candidates) : candidates[c].claimB.id = claims[k].id

(***************************************************************************)
(* The pipeline run: handleFileSelected and handleNewAnalysis of App.      *)
(* The awaited calls (createDocumentFromFile, extractClaimsFromUtterances,  *)
(* generateBatchEmbeddings, findContradictions) are steps of their own,    *)
(* with their results drawn from small sets; events records, in order,     *)
(* the calls made and the state setters invoked by the current run.        *)
(***************************************************************************)
Call(name) == [kind |-> "call", name |-> name]
SetStatus(st) == [kind |-> "setStatus", status |-> st]
SetReport(r) == [kind |-> "setReport", report |-> r]
\* the call name threw, or its promise was rejected
Threw(name) == [kind |-> "threw", name |-> name]

\* a status with the error field
ErrorStatus(message, error) ==
    [stage |-> "error", progress |-> Percent(0, 1), message |-> message,
     args |-> <<>>, error |-> error]

\* the messages of the errors thrown
NoAnswersError == "No Q&A pairs found in document. Please ensure the transcript uses \"Q.\" and \"A.\" format for questions and answers."
NoValidClaimsError == "No valid claims found for embedding generation"
StorageError == "Storage quota exceeded or storage unavailable"
ParseError == "Unable to parse file"
EmbeddingError == "Failed to generate embeddings"

\* the catch at the end of handleFileSelected
ProcessingFailed(error) == ErrorStatus("Processing failed", error)
\* the catch of the embedding and analysis block
AnalysisFailed(error) == ErrorStatus("Analysis failed", error)

\* documents createDocumentFromFile may return: their rawText, split in lines
Documents ==
    UNION {{[k \in 1..n |-> LinePool[pick[k]]] : pick \in [1..n -> 1..Len(LinePool)]} :
           n \in 1..MaxRunLines}

\* normalized_text values the extractor may return
ClaimTexts == {None, <<>>, <<" ">>, <<"x">>, <<" ", "y">>}

AnswerIndices(us) == {k \in 1..Len(us) : us[k].role = "ANSWER"}
\* the count taken over all utterances
utteranceCount(us) == Len(us)

\* utterances.filter(u => u.role === 'ANSWER').length
answerCount(us) == Cardinality(AnswerIndices(us))

\* results extractClaimsFromUtterances may resolve to: claims of ANSWER
\* utterances, in document order of their utterances
ExtractedClaims(us) ==
    UNION {{cs \in [1..n -> [utteranceId : AnswerIndices(us), normalizedText : ClaimTexts]] :
               \A k \in 1..(n - 1) : cs[k].utteranceId <= cs[k + 1].utteranceId} :
           n \in 0..MaxRunClaims}

\* c.normalizedText && c.normalizedText.trim().length > 0
ValidText(text) == Truthy(text) /\ Len(trim(text)) > 0

RECURSIVE FilterTruthy(_)
\* the claim filter without the test of the trimmed length
FilterTruthy(cs) ==
    IF cs = <<>> THEN <<>>
    ELSE IF Truthy(Head(cs).normalizedText)
         THEN <<Head(cs)>> \o FilterTruthy(Tail(cs))
         ELSE FilterTruthy(Tail(cs))

RECURSIVE FilterValid(_)
\* claims.filter(c => c.normalizedText && c.normalizedText.trim().length > 0)
FilterValid(cs) ==
    IF cs = <<>> THEN <<>>
    ELSE IF ValidText(Head(cs).normalizedText)
         THEN <<Head(cs)>> \o FilterValid(Tail(cs))
         ELSE FilterValid(Tail(cs))

\* the embedding the provider computes for a text
EmbeddingOf(text) == [of |-> text]

RECURSIVE ValidTexts(_)
\* generateBatchEmbeddings: texts.map(t => (t || '').trim()).filter(t => t.length > 0)
ValidTexts(texts) ==
    IF texts = <<>> THEN <<>>
    ELSE LET t == IF Truthy(Head(texts)) THEN trim(Head(texts)) ELSE <<>>
         IN  IF Len(t) > 0 THEN <<t>> \o ValidTexts(Tail(texts))
             ELSE ValidTexts(Tail(texts))

\* generateBatchEmbeddings, where the provider answers: one embedding for
\* each text kept, in order
generateBatchEmbeddings(texts) ==
    [k \in 1..Len(ValidTexts(texts)) |-> EmbeddingOf(ValidTexts(texts)[k])]

\* lists findContradictions may resolve to for these claims
DetectedContradictions(cs) ==
    {<<>>} \cup
    {<<[claimA |-> ab[1], claimB |-> ab[2], type |-> t]>> :
        ab \in {p \in (1..Len(cs)) \X (1..Len(cs)) : p[1] < p[2]},
        t \in JudgmentLabels \ {"CONSISTENT"}}

\* generateReport(document, claims, contradictions): the statistics of the
\* Report Aggregator
generateReport(document, cs, found) ==
    [set |-> TRUE,
     totalClaims |-> Len(cs),
     totalContradictions |-> Len(found),
     hardContradictions |->
         Cardinality({k \in 1..Len(found) : found[k].type = "HARD_CONTRADICTION"}),
     softInconsistencies |->
         Cardinality({k \in 1..Len(found) : found[k].type = "SOFT_INCONSISTENCY"}),
     contradictions |-> found]

\* the variables of the detector a pipeline run leaves alone
detectorScratch == <<topK, threshold, query, j, candidates, alreadyCompared,
                     pairsAnalyzed, contradictions, calls, progressLog, suspended, input, segmenterVars, storageVars>>

InitRun ==
    /\ pc = "idle"
    /\ claims = <<>> /\ embeddings = NoEmbeddings
    /\ topK = 0 /\ threshold = ZeroScore /\ query = 0
    /\ candidates = <<>>
    /\ IdleDetector
    /\ IdleSegmenter
    /\ IdleApp
    /\ suspended = NoFrame
    /\ IdleLoop
    /\ IdleStorage
    /\ input = NoInput

\* a catch block that swallows the error without setting the status
CaughtSilently(ev, st) ==
    /\ status' = status
    /\ events' = ev
    /\ pc' = "settled"

\* a throw caught by one of the two catch blocks: the error status is set
\* and the handler returns
Caught(ev, st) ==
    /\ status' = st
    /\ events' = Append(ev, SetStatus(st))
    /\ pc' = "settled"

\* the FileUpload is rendered only when !report && status.stage === 'idle'
FileUploadShown == ~ report.set /\ status.stage = "idle"

\* handleFileSelected up to await createDocumentFromFile(file)
SelectFile ==
    /\ pc = "idle"
    /\ FileUploadShown
    /\ report' = NoReport
    /\ status' = Status("parsing", Percent(10, 1), "Parsing transcript file...", <<>>)
    /\ events' = events \o <<SetReport(NoReport), SetStatus(status'),
                             Call("createDocumentFromFile")>>
    /\ pc' = "createDocument"
    /\ UNCHANGED <<claims, embeddings, i, returned, rawText, utterances,
                   validClaims, detectorScratch>>

\* createDocumentFromFile rejects
DocumentFails ==
    /\ pc = "createDocument"
    /\ Caught(Append(events, Threw("createDocumentFromFile")),
              ProcessingFailed(ParseError))
    /\ UNCHANGED <<claims, embeddings, i, returned, rawText, utterances,
                   validClaims, report, detectorScratch>>

\* createDocumentFromFile resolves: save, segment, count the answers, and
\* start claim extraction
DocumentParsed ==
    /\ pc = "createDocument"
    /\ \E doc \in Documents, storage \in {"ok", "saveDocument", "saveUtterances"} :
          LET us == extractUtterances(doc)
              ev1 == Append(events, Call("saveDocument"))
              ev2 == ev1 \o <<SetStatus(Status("parsing", Percent(30, 1),
                                               "Extracting Q&A utterances...", <<>>)),
                              Call("extractUtterances"), Call("saveUtterances")>>
              extracting == Status("extracting", Percent(40, 1),
                                   "Extracting claims from witness responses...",
                                   <<answerCount(us)>>)
          IN  /\ rawText' = doc
              /\ IF storage = "saveDocument"
                 THEN /\ Caught(Append(ev1, Threw("saveDocument")),
                                ProcessingFailed(StorageError))
                      /\ UNCHANGED utterances
                 ELSE /\ utterances' = us
                      /\ IF storage = "saveUtterances"
                         THEN Caught(Append(ev2, Threw("saveUtterances")),
                                     ProcessingFailed(StorageError))
                         ELSE IF answerCount(us) = 0
                         THEN Caught(ev2, ProcessingFailed(NoAnswersError))
                         ELSE /\ status' = extracting
                              /\ events' = ev2 \o <<SetStatus(extracting),
                                                    Call("extractClaimsFromUtterances")>>
                              /\ pc' = "extractClaims"
    /\ i' = 0
    /\ UNCHANGED <<claims, embeddings, returned, validClaims, report, detectorScratch>>

\* the progress callback of extractClaimsFromUtterances, once per answer
ExtractionProgress ==
    /\ pc = "extractClaims"
    /\ i < answerCount(utterances)
    /\ i' = i + 1
    /\ LET total == answerCount(utterances)
       IN  status' = Status("extracting", Percent(40 * total + 20 * (i + 1), total),
                            "Extracting claims", <<i + 1, total>>)
    /\ events' = Append(events, SetStatus(status'))
    /\ UNCHANGED <<claims, embeddings, returned, rawText, utterances, pc,
                   validClaims, report, detectorScratch>>

\* extractClaimsFromUtterances resolves: save, filter the claims, and start
\* the embedding generation
ClaimsExtracted ==
    /\ pc = "extractClaims"
    /\ i = answerCount(utterances)
    /\ \E cs \in ExtractedClaims(utterances), storage \in {"ok", "saveClaims"} :
          LET ev1 == Append(events, Call("saveClaims"))
              embedding == Status("embedding", Percent(60, 1),
                                  "Generating embeddings for semantic analysis...", <<>>)
              ev2 == Append(ev1, SetStatus(embedding))
          IN  /\ claims' = cs
              /\ IF storage = "saveClaims"
                 THEN /\ Caught(Append(ev1, Threw("saveClaims")),
                                ProcessingFailed(StorageError))
                      /\ UNCHANGED validClaims
                 ELSE /\ validClaims' = FilterValid(cs)
                      /\ IF Len(FilterValid(cs)) = 0
                         THEN Caught(ev2, AnalysisFailed(NoValidClaimsError))
                         ELSE /\ status' = embedding
                              /\ events' = Append(ev2, Call("generateBatchEmbeddings"))
                              /\ pc' = "embeddings"
    /\ UNCHANGED <<embeddings, i, returned, rawText, utterances, report,
                   detectorScratch>>

\* generateBatchEmbeddings rejects
EmbeddingsFail ==
    /\ pc = "embeddings"
    /\ Caught(Append(events, Threw("generateBatchEmbeddings")),
              AnalysisFailed(EmbeddingError))
    /\ UNCHANGED <<claims, embeddings, i, returned, rawText, utterances,
                   validClaims, report, detectorScratch>>

\* generateBatchEmbeddings resolves: start findContradictions
EmbeddingsReturn ==
    /\ pc = "embeddings"
    /\ embeddings' = Embeddings(generateBatchEmbeddings(
                         [k \in 1..Len(validClaims) |-> validClaims[k].normalizedText]))
    /\ status' = Status("analyzing", Percent(70, 1),
                        "Detecting contradictions and inconsistencies...", <<>>)
    /\ events' = events \o <<SetStatus(status'), Call("findContradictions")>>
    /\ pc' = "analysis"
    /\ i' = 0
    /\ UNCHANGED <<claims, returned, rawText, utterances, validClaims, report,
                   detectorScratch>>

\* the analysis callback that leaves out the 70 the stage starts at
AnalysisProgressFromZero ==
    /\ pc = "analysis"
    /\ i <= Len(validClaims)
    /\ i' = i + 1
    /\ LET total == Len(validClaims)
           current == Min(i + 1, total)
       IN  status' = Status("analyzing", Percent(25 * current, total),
                            "Analyzing", <<current, total>>)
    /\ events' = Append(events, SetStatus(status'))
    /\ UNCHANGED <<claims, embeddings, returned, rawText, utterances, pc,
                   validClaims, report, detectorScratch>>

\* the progress callback of findContradictions: once per claim, and once
\* more at the end (contradictionsFound is left out of the message)
AnalysisProgress ==
    /\ pc = "analysis"
    /\ i <= Len(validClaims)
    /\ i' = i + 1
    /\ LET total == Len(validClaims)
           current == Min(i + 1, total)
       IN  status' = Status("analyzing", Percent(70 * total + 25 * current, total),
                            "Analyzing", <<current, total>>)
    /\ events' = Append(events, SetStatus(status'))
    /\ UNCHANGED <<claims, embeddings, returned, rawText, utterances, pc,
                   validClaims, report, detectorScratch>>

\* findContradictions resolves: save, build the report, complete
AnalysisReturns ==
    /\ pc = "analysis"
    /\ i = Len(validClaims) + 1
    /\ \E found \in DetectedContradictions(validClaims),
          storage \in {"ok", "saveContradictions"} :
          LET ev1 == Append(events, Call("saveContradictions"))
              generatedReport == generateReport(rawText, validClaims, found)
              complete == Status("complete", Percent(100, 1), "Analysis complete!",
                                 <<Len(validClaims), Len(found)>>)
          IN  /\ returned' = found
              /\ IF storage = "saveContradictions"
                 THEN /\ Caught(Append(ev1, Threw("saveContradictions")),
                                AnalysisFailed(StorageError))
                      /\ UNCHANGED report
                 ELSE /\ report' = generatedReport
                      /\ status' = complete
                      /\ events' = ev1 \o
                            <<SetStatus(Status("analyzing", Percent(95, 1),
                                               "Generating report...", <<>>)),
                              Call("generateReport"), SetReport(generatedReport),
                              SetStatus(complete)>>
                      /\ pc' = "settled"
    /\ UNCHANGED <<claims, embeddings, i, rawText, utterances, validClaims,
                   detectorScratch>>

\* the button "Analyze Another Transcript", rendered when a report is set;
\* the locals of the finished run are dropped
handleNewAnalysis ==
    /\ report.set
    /\ report' = NoReport
    /\ status' = IdleStatus
    /\ pc' = "idle"
    /\ claims' = <<>> /\ embeddings' = NoEmbeddings /\ validClaims' = <<>>
    /\ rawText' = <<>> /\ utterances' = <<>> /\ returned' = <<>>
    /\ i' = 0 /\ events' = <<>>
    /\ UNCHANGED detectorScratch

\* the steps of a run of handleFileSelected after it has started
RunStep ==
    \/ DocumentFails
    \/ DocumentParsed
    \/ ExtractionProgress
    \/ ClaimsExtracted
    \/ EmbeddingsFail
    \/ EmbeddingsReturn
    \/ AnalysisProgress
    \/ AnalysisReturns

NextRun == SelectFile \/ RunStep \/ handleNewAnalysis

SpecRun == InitRun /\ [][NextRun]_vars

\* every awaited call returns or fails
SpecRunLive == SpecRun /\ WF_vars(RunStep)

(***************************************************************************)
(* Properties of the pipeline run (SpecRun, SpecRunLive).                  *)
(***************************************************************************)
Happened(event) == event \in Range(events)

Settled == pc = "settled"

\* C12: if embedding generation fails, the pipeline run is not aborted:
\* contradiction detection is still started (with the semantic signal
\* dropped) and the run ends with a completed Report, not a terminal error.
C12_EmbeddingFailureDegrades ==
    Happened(Threw("generateBatchEmbeddings")) =>
        /\ Happened(Call("findContradictions"))
        /\ Settled => status.stage = "complete" /\ report.set

\* C14: a transcript that yields zero ANSWER utterances ends the run in a
\* terminal error with an actionable message (the one naming the Q./A.
\* format, unless writing the utterances to storage failed first): no Report
\* is produced, and claim extraction, embedding generation and pair
\* classification are never invoked.
C14_NoAnswersIsFatal ==
    Happened(Call("extractUtterances")) /\ AnswerUtterances = {} =>
        /\ Settled
        /\ status.stage = "error"
        /\ status.error = IF Happened(Threw("saveUtterances")) THEN StorageError
                          ELSE NoAnswersError
        /\ ~ report.set
        /\ \A e \in Range(events) : e.kind = "setReport" => ~ e.report.set
        /\ \A name \in {"extractClaimsFromUtterances", "generateBatchEmbeddings",
                        "findContradictions", "generateReport"} :
              ~ Happened(Call(name))

\* a run on a transcript with question markers only, ended by the message
\* about the Q./A. format
C14_Witness ==
    /\ Settled
    /\ Happened(Call("extractUtterances"))
    /\ utterances # <<>>
    /\ \A u \in 1..Len(utterances) : utterances[u].role = "QUESTION"
    /\ status.stage = "error" /\ status.error = NoAnswersError

Started == pc \notin {"idle", "settled"}

TerminalStages == {"complete", "error"}

\* the terminal statuses the current run has set
TerminalStatusEvents ==
    {k \in 1..Len(events) :
        events[k].kind = "setStatus" /\ events[k].status.stage \in TerminalStages}

\* a settled run has one outcome: complete with a Report, or error without
OneOutcome ==
    /\ Settled <=> status.stage \in TerminalStages
    /\ Settled =>
          /\ \/ status.stage = "complete" /\ report.set
             \/ status.stage = "error" /\ ~ report.set
          /\ TerminalStatusEvents = {Len(events)}
          /\ events[Len(events)].status = status
    /\ ~ Settled => TerminalStatusEvents = {}

\* C15: every started run eventually reaches exactly one terminal outcome,
\* given that each awaited call returns or fails: stage complete with a
\* Report set, or stage error with no Report; after that the run changes the
\* status no more (only the button handleNewAnalysis resets it).
C15_RunReachesOneOutcome ==
    /\ [] OneOutcome
    /\ [][Settled => (status' = status /\ report' = report) \/ handleNewAnalysis]_vars
    /\ Started ~> Settled

\* a run that went through every stage and completed with a report after the
\* progress callbacks of the analysis
C15_Witness ==
    /\ Settled
    /\ status.stage = "complete"
    /\ report.set
    /\ \E k \in 1..Len(events) :
          events[k].kind = "setStatus" /\ events[k].status.message = "Analyzing"
    /\ report.totalContradictions = 1

(***************************************************************************)
(* Properties of a findContradictions run (Spec), continued.               *)
(***************************************************************************)
PendingCalls == {c \in 1..Len(calls) : calls[c].outcome = "pending"}

\* C13: within one run, claims are processed strictly in input order and the
\* candidates of a claim strictly in ranked order: at most one classifier
\* call is outstanding at any time (the latest one), and the classifier
\* invocations are ordered by (index of the proposing claim, rank of the
\* candidate in that claim's ranked list).
C13_SequentialInOrder ==
    /\ Cardinality(PendingCalls) <= 1
    /\ PendingCalls \subseteq {Len(calls)}
    /\ \A c \in 1..Len(calls) :
          /\ calls[c].by \in 1..Len(claims)
          /\ calls[c].claimA = claims[calls[c].by]
          /\ calls[c].rank \in 1..Len(CandidatesOf(calls[c].by))
          /\ calls[c].claimB = CandidatesOf(calls[c].by)[calls[c].rank].claimB
          /\ calls[c].by <= i
    /\ \A c1, c2 \in 1..Len(calls) :
          c1 < c2 =>
              \/ calls[c1].by < calls[c2].by
              \/ calls[c1].by = calls[c2].by /\ calls[c1].rank < calls[c2].rank
    /\ \A k \in 1..Len(progressLog) :
          k <= Len(claims) => progressLog[k].current = k

\* a finished run in which one claim proposed two pairs, classified in rank
\* order, before a later claim proposed a third
C13_Witness ==
    /\ pc = "done"
    /\ \E c \in 1..(Len(calls) - 2) :
          /\ calls[c].by = calls[c + 1].by
          /\ calls[c].rank = 1 /\ calls[c + 1].rank = 2
          /\ calls[c + 2].by > calls[c].by

(***************************************************************************)
(* Claim extraction: extractClaimsFromUtterances.                          *)
(* The id of an utterance is its position in utterances; claims is the     *)
(* allClaims array, calls the history of extractClaimsFromUtterance calls. *)
(***************************************************************************)
\* lines of the transcripts claims are extracted from
ExtractLinePool == <<<<"Q","."," ","W","h","o","?">>, <<"A","."," ","M","e",".">>, <<"s","o"," ","o","n",".">>, <<"P","a","g","e"," ","2">>>>

ExtractDocuments ==
    UNION {{[k \in 1..n |-> ExtractLinePool[pick[k]]] :
               pick \in [1..n -> 1..Len(ExtractLinePool)]} :
           n \in 1..MaxExtractLines}

\* ClaimExtraction objects the LLM may return for an utterance
ExtractionX == [normalized_text |-> <<"x">>, entities |-> None]
ExtractionY == [normalized_text |-> <<"y">>, entities |-> <<Bob>>]
Extractions == {<<>>, <<ExtractionX>>, <<ExtractionX, ExtractionY>>}

RECURSIVE IndicesAll(_, _)
\* the filter that keeps every utterance
IndicesAll(us, k) ==
    IF k > Len(us) THEN <<>> ELSE <<k>> \o IndicesAll(us, k + 1)

RECURSIVE AnswersFrom(_, _)
\* utterances.filter(u => u.role === 'ANSWER') from position k on, as positions
AnswersFrom(us, k) ==
    IF k > Len(us) THEN <<>>
    ELSE IF us[k].role = "ANSWER" THEN <<k>> \o AnswersFrom(us, k + 1)
         ELSE AnswersFrom(us, k + 1)

answerUtterances == AnswersFrom(utterances, 1)

\* extractions.map(extraction => ({...})) for utterance u, the claims
\* created so far being n
ClaimsFrom(u, extractions, n) ==
    [k \in 1..Len(extractions) |->
        [id |-> Uuid(n + k),
         utteranceId |-> u,
         normalizedText |-> extractions[k].normalized_text,
         entities |-> IF extractions[k].entities = None THEN <<>>
                      ELSE extractions[k].entities,
         citation |-> utterances[u].citation]]

InitExtract ==
    /\ \E doc \in ExtractDocuments :
          /\ rawText = doc
          /\ utterances = extractUtterances(doc)
    /\ claims = <<>>
    /\ i = 1
    /\ pc = "extract"
    /\ calls = <<>> /\ progressLog = <<>> /\ returned = <<>>
    /\ embeddings = NoEmbeddings
    /\ topK = 0 /\ threshold = ZeroScore /\ query = 0
    /\ candidates = <<>> /\ j = 0
    /\ alreadyCompared = {} /\ pairsAnalyzed = 0 /\ contradictions = <<>>
    /\ IdleApp
    /\ suspended = NoFrame
    /\ IdleLoop
    /\ IdleStorage
    /\ input = NoInput

AtExtractHead == pc = "extract" /\ i <= Len(answerUtterances)
AwaitingExtraction == pc = "extracting"
ExtractExhausted == pc = "extract" /\ i > Len(answerUtterances)
CanExtractStep == AtExtractHead \/ AwaitingExtraction \/ ExtractExhausted

extractScratch == <<embeddings, topK, threshold, query, j, candidates,
                    alreadyCompared, pairsAnalyzed, contradictions, rawText,
                    utterances, appVars, suspended, input, segmenterVars, storageVars>>

\* loop head: progress callback, then the LLM call for answer i
StartExtraction ==
    /\ AtExtractHead
    /\ progressLog' = Append(progressLog,
                             [current |-> i, total |-> Len(answerUtterances)])
    /\ calls' = Append(calls, [utterance |-> answerUtterances[i],
                               outcome |-> "pending", claims |-> <<>>])
    /\ pc' = "extracting"
    /\ UNCHANGED <<claims, i, returned, extractScratch>>

\* extractClaimsFromUtterance resolves: its claims are pushed; sleep; next
ExtractionReturns ==
    /\ AwaitingExtraction
    /\ \E extractions \in Extractions :
          LET created == ClaimsFrom(answerUtterances[i], extractions, Len(claims))
          IN  /\ claims' = claims \o created
              /\ calls' = [calls EXCEPT ![Len(calls)] =
                              [@ EXCEPT !.outcome = "returned", !.claims = created]]
    /\ i' = i + 1
    /\ pc' = "extract"
    /\ UNCHANGED <<progressLog, returned, extractScratch>>

\* the LLM call throws and nothing catches it
ExtractionFailsUncaught ==
    /\ AwaitingExtraction
    /\ calls' = [calls EXCEPT ![Len(calls)].outcome = "failed"]
    /\ pc' = "rejected"
    /\ UNCHANGED <<claims, i, progressLog, returned, extractScratch>>

\* the LLM call throws: caught, "continue with next utterance"
ExtractionFails ==
    /\ AwaitingExtraction
    /\ calls' = [calls EXCEPT ![Len(calls)].outcome = "failed"]
    /\ i' = i + 1
    /\ pc' = "extract"
    /\ UNCHANGED <<claims, progressLog, returned, extractScratch>>

\* return allClaims
FinishExtraction ==
    /\ ExtractExhausted
    /\ returned' = claims
    /\ pc' = "done"
    /\ UNCHANGED <<claims, i, calls, progressLog, extractScratch>>

NextExtract ==
    \/ StartExtraction
    \/ ExtractionReturns
    \/ ExtractionFails
    \/ FinishExtraction

SpecExtract == InitExtract /\ [][NextExtract]_vars

(***************************************************************************)
(* Properties of claim extraction.                                         *)
(***************************************************************************)
ExtractionDone == pc = "done"

AnswerPositions == {u \in 1..Len(utterances) : utterances[u].role = "ANSWER"}

RECURSIVE ClaimsOfCalls(_)
\* the claims the successful calls 1..c produced, in call order
ClaimsOfCalls(c) ==
    IF c = 0 THEN <<>> ELSE ClaimsOfCalls(c - 1) \o calls[c].claims

\* C16: a failed extraction of one ANSWER utterance contributes no claim and
\* stops nothing: the ANSWER utterances are submitted one after the other in
\* document order, every one of them once the function is done, the function
\* never rejects, and it returns exactly the claims of the successful calls.
C16_FailedUtteranceIsSkipped ==
    /\ pc \in {"extract", "extracting", "done"}
    /\ ~ExtractionDone => CanExtractStep
    /\ \A c \in 1..Len(calls) :
          calls[c].outcome = "failed" =>
             /\ calls[c].claims = <<>>
             /\ \A k \in 1..Len(claims) :
                   claims[k].utteranceId # calls[c].utterance
    /\ \A c1, c2 \in 1..Len(calls) :
          c1 < c2 => calls[c1].utterance < calls[c2].utterance
    /\ \A c \in 1..Len(calls) :
          /\ calls[c].utterance \in AnswerPositions
          /\ \A u \in AnswerPositions :
                u < calls[c].utterance =>
                   \E d \in 1..(c - 1) : calls[d].utterance = u
    /\ ExtractionDone =>
          /\ AnswerPositions = {calls[c].utterance : c \in 1..Len(calls)}
          /\ returned = ClaimsOfCalls(Len(calls))

C16_Witness ==
    /\ ExtractionDone
    /\ \E c1, c2, c3 \in 1..Len(calls) :
          /\ c1 < c2 /\ c2 < c3
          /\ calls[c1].outcome = "returned" /\ calls[c1].claims # <<>>
          /\ calls[c2].outcome = "failed"
          /\ calls[c3].outcome = "returned" /\ calls[c3].claims # <<>>
    /\ returned # <<>>

\* C17: extraction is only ever called on ANSWER utterances, and every claim
\* collected or returned names an ANSWER utterance as its utteranceId and
\* carries that utterance's citation unchanged.
C17_ClaimsComeFromAnswers ==
    /\ \A c \in 1..Len(calls) :
          /\ calls[c].utterance \in 1..Len(utterances)
          /\ utterances[calls[c].utterance].role = "ANSWER"
    /\ \A cs \in {claims, returned} :
          \A k \in 1..Len(cs) :
             /\ cs[k].utteranceId \in 1..Len(utterances)
             /\ utterances[cs[k].utteranceId].role = "ANSWER"
             /\ cs[k].citation = utterances[cs[k].utteranceId].citation

C17_Witness ==
    /\ ExtractionDone
    /\ \E u \in 1..Len(utterances) : utterances[u].role = "QUESTION"
    /\ \E k1, k2 \in 1..Len(returned) :
          returned[k1].utteranceId # returned[k2].utteranceId

(***************************************************************************)
(* Progress callbacks of a findContradictions run (Spec).                  *)
(***************************************************************************)
\* the calls made while claims 1..k were processed
CallsUpTo(k) ==
    LET ByUpTo(c) == c.by <= k IN SelectSeq(calls, ByUpTo)

\* the callback tells the results of claims 1..k
IncludesResultsOf(callback, k) ==
    /\ callback.contradictionsFound = Len(RecordsOf(CallsUpTo(k)))
    /\ callback.pairsAnalyzed >= Len(CallsUpTo(k))

\* C19: a progress callback is delivered after each claim has been processed
\* and once more at the end: in a finished run every claim k has a callback
\* with current = k whose pairsAnalyzed and contradictionsFound include the
\* results of claim k, current never decreases, and the final callback has
\* current = total and contradictionsFound = length of the returned list.
C19_ProgressAfterEachClaim ==
    /\ \A p, q \in 1..Len(progressLog) :
          p <= q => progressLog[p].current <= progressLog[q].current
    /\ pc = "done" =>
          /\ \A k \in 1..Len(claims) :
                \E p \in 1..Len(progressLog) :
                   /\ progressLog[p].current = k
                   /\ IncludesResultsOf(progressLog[p], k)
          /\ progressLog[Len(progressLog)].current = Len(claims)
          /\ progressLog[Len(progressLog)].total = Len(claims)
          /\ progressLog[Len(progressLog)].contradictionsFound = Len(returned)

(***************************************************************************)
(* getContradictionStatistics.  A confidence is held in hundredths         *)
(* (0.8 is 80), the average as the fraction totalConfidence / length.      *)
(***************************************************************************)
ContradictionTypes ==
    {"HARD_CONTRADICTION", "SOFT_INCONSISTENCY", "SCOPE_SHIFT",
     "TEMPORAL_CONFLICT", "DEFINITION_DRIFT"}

\* confidences in [0, 1], at and next to the bucket boundaries
Confidences == {0, 49, 50, 79, 80, 100}

StatisticsInputs ==
    UNION {[1..n -> [type : {"HARD_CONTRADICTION", "SCOPE_SHIFT"},
                     confidence : Confidences]] : n \in 0..MaxStatistics}

\* the buckets, with 0.8 itself left to medium
ConfidenceBucketStrict(confidence) ==
    IF confidence > 80 THEN "highConfidence"
    ELSE IF confidence >= 50 THEN "mediumConfidence"
    ELSE "lowConfidence"

\* if (confidence >= 0.8) high else if (confidence >= 0.5) medium else low
ConfidenceBucket(confidence) ==
    IF confidence >= 80 THEN "highConfidence"
    ELSE IF confidence >= 50 THEN "mediumConfidence"
    ELSE "lowConfidence"

ZeroStatistics ==
    [byType |-> [t \in ContradictionTypes |-> 0],
     totalConfidence |-> 0,
     highConfidence |-> 0, mediumConfidence |-> 0, lowConfidence |-> 0]

\* one pass of the loop body over a contradiction
CountContradiction(acc, contradiction) ==
    LET bucket == ConfidenceBucket(contradiction.confidence)
    IN  [byType |-> [acc.byType EXCEPT ![contradiction.type] = @ + 1],
         totalConfidence |-> acc.totalConfidence + contradiction.confidence,
         highConfidence |-> acc.highConfidence +
                            (IF bucket = "highConfidence" THEN 1 ELSE 0),
         mediumConfidence |-> acc.mediumConfidence +
                              (IF bucket = "mediumConfidence" THEN 1 ELSE 0),
         lowConfidence |-> acc.lowConfidence +
                           (IF bucket = "lowConfidence" THEN 1 ELSE 0)]

RECURSIVE StatisticsLoop(_, _, _)
\* for (const contradiction of contradictions) from position k on
StatisticsLoop(cs, k, acc) ==
    IF k > Len(cs) THEN acc
    ELSE StatisticsLoop(cs, k + 1, CountContradiction(acc, cs[k]))

getContradictionStatistics(cs) ==
    LET acc == StatisticsLoop(cs, 1, ZeroStatistics)
    IN  [total |-> Len(cs),
         byType |-> acc.byType,
         avgConfidence |-> IF Len(cs) > 0
                           THEN [num |-> acc.totalConfidence, den |-> Len(cs)]
                           ELSE [num |-> 0, den |-> 1],
         highConfidence |-> acc.highConfidence,
         mediumConfidence |-> acc.mediumConfidence,
         lowConfidence |-> acc.lowConfidence]

InitStatistics ==
    /\ contradictions \in StatisticsInputs
    /\ pc = "statistics"
    /\ returned = <<>>
    /\ claims = <<>> /\ embeddings = NoEmbeddings
    /\ topK = 0 /\ threshold = ZeroScore /\ query = 0
    /\ i = 0 /\ j = 0 /\ candidates = <<>>
    /\ alreadyCompared = {} /\ pairsAnalyzed = 0
    /\ calls = <<>> /\ progressLog = <<>>
    /\ rawText = <<>> /\ utterances = <<>>
    /\ IdleApp
    /\ suspended = NoFrame
    /\ IdleLoop
    /\ IdleStorage
    /\ input = NoInput

StatisticsCall ==
    /\ pc = "statistics"
    /\ returned' = getContradictionStatistics(contradictions)
    /\ pc' = "done"
    /\ UNCHANGED <<claims, embeddings, topK, threshold, query, i, j, candidates,
                   alreadyCompared, pairsAnalyzed, contradictions, calls,
                   progressLog, rawText, utterances, appVars, suspended, input, segmenterVars, storageVars>>

NextStatistics == StatisticsCall

SpecStatistics == InitStatistics /\ [][NextStatistics]_vars

(***************************************************************************)
(* Properties of getContradictionStatistics.                               *)
(***************************************************************************)
StatisticsDone == pc = "done"

WithConfidence(lo, hi) ==
    {k \in 1..Len(contradictions) :
        contradictions[k].confidence >= lo /\ contradictions[k].confidence < hi}

\* C20: every contradiction is counted in exactly one confidence bucket:
\* highConfidence counts those with confidence >= 0.8, mediumConfidence those
\* with 0.5 <= confidence < 0.8, lowConfidence those with confidence < 0.5,
\* so the three counts add up to total, the length of the list.
C20_BucketsPartitionTotal ==
    StatisticsDone =>
        /\ returned.total = Len(contradictions)
        /\ returned.highConfidence = Cardinality(WithConfidence(80, 101))
        /\ returned.mediumConfidence = Cardinality(WithConfidence(50, 80))
        /\ returned.lowConfidence = Cardinality(WithConfidence(0, 50))
        /\ returned.highConfidence + returned.mediumConfidence +
           returned.lowConfidence = returned.total

C20_Witness ==
    /\ StatisticsDone
    /\ \E a, b, c \in 1..Len(contradictions) :
          /\ contradictions[a].confidence = 80
          /\ contradictions[b].confidence = 50
          /\ contradictions[c].confidence = 49
    /\ returned.highConfidence = 1
    /\ returned.mediumConfidence = 1
    /\ returned.lowConfidence = 1

(***************************************************************************)
(* Two invocations of findContradictions in one process.  The variables    *)
(* of the detector are the frame of the invocation that is running;        *)
(* suspended is the frame of the other one, which waits at an await or     *)
(* has not run yet.  The running invocation gives way at its suspension    *)
(* point (the await of the classifier, with the sleep that follows the     *)
(* answer) and when it has returned.                                       *)
(***************************************************************************)
\* the locals of the running invocation and its histories
Frame ==
    [claims |-> claims, embeddings |-> embeddings, topK |-> topK,
     threshold |-> threshold, i |-> i, j |-> j, candidates |-> candidates,
     pc |-> pc, alreadyCompared |-> alreadyCompared,
     pairsAnalyzed |-> pairsAnalyzed, contradictions |-> contradictions,
     calls |-> calls, progressLog |-> progressLog, returned |-> returned]

\* the frame of an invocation that was called and has not run yet
NewFrame(cs, es, k, t) ==
    [claims |-> cs, embeddings |-> es, topK |-> k, threshold |-> t,
     i |-> 1, j |-> 0, candidates |-> <<>>, pc |-> "loop",
     alreadyCompared |-> {}, pairsAnalyzed |-> 0, contradictions |-> <<>>,
     calls |-> <<>>, progressLog |-> <<>>, returned |-> <<>>]

\* a Set<string> of the module, the same for every invocation
ModuleAlreadyCompared(frame) == alreadyCompared

\* const alreadyCompared = new Set<string>() of the invocation resumed
AlreadyComparedOf(frame) == frame.alreadyCompared

\* both invocations are given the same claims and arguments
InitTwoRuns ==
    /\ \E prof \in [1..MaxTwoRunClaims -> RunProfiles] :
          /\ claims = [k \in 1..MaxTwoRunClaims |-> ClaimOf(prof[k], k)]
          /\ embeddings \in {NoEmbeddings,
                             Embeddings([k \in 1..MaxTwoRunClaims |->
                                            Profiles[prof[k]].embedding])}
    /\ topK \in 1..MaxTopK
    /\ threshold \in Thresholds
    /\ query = 0
    /\ i = 1 /\ j = 0
    /\ candidates = <<>>
    /\ pc = "loop"
    /\ alreadyCompared = {} /\ pairsAnalyzed = 0 /\ contradictions = <<>>
    /\ calls = <<>> /\ progressLog = <<>> /\ returned = <<>>
    /\ suspended = NewFrame(claims, embeddings, topK, threshold)
    /\ IdleLoop
    /\ IdleStorage
    /\ input = NoInput
    /\ IdleSegmenter
    /\ status = IdleStatus /\ report = NoReport
    /\ validClaims = <<>> /\ events = <<>>

\* the running invocation is suspended or over, the other one runs on
Switch ==
    /\ pc \in {"classifying", "done"}
    /\ suspended # NoFrame
    /\ suspended.pc # "done"
    /\ suspended' = Frame
    /\ claims' = suspended.claims
    /\ embeddings' = suspended.embeddings
    /\ topK' = suspended.topK
    /\ threshold' = suspended.threshold
    /\ i' = suspended.i
    /\ j' = suspended.j
    /\ candidates' = suspended.candidates
    /\ pc' = suspended.pc
    /\ alreadyCompared' = AlreadyComparedOf(suspended)
    /\ pairsAnalyzed' = suspended.pairsAnalyzed
    /\ contradictions' = suspended.contradictions
    /\ calls' = suspended.calls
    /\ progressLog' = suspended.progressLog
    /\ returned' = suspended.returned
    /\ UNCHANGED <<query, rawText, utterances, appVars, input, segmenterVars, storageVars>>

NextTwoRuns ==
    \/ Next
    \/ Switch

SpecTwoRuns == InitTwoRuns /\ [][NextTwoRuns]_vars

(***************************************************************************)
(* Properties of two invocations (SpecTwoRuns).                            *)
(***************************************************************************)
KeyOf(pair) == getPairKey(pair.claimA.id, pair.claimB.id)

\* the last candidate of claim k the running invocation reached: the one
\* whose classification failed, or else the last one
LastRank(k) ==
    IF \E c \in 1..Len(calls) : calls[c].by = k /\ calls[c].outcome = "failed"
    THEN calls[CHOOSE c \in 1..Len(calls) :
                  calls[c].by = k /\ calls[c].outcome = "failed"].rank
    ELSE Len(CandidatesOf(k))

\* the pair keys the running invocation itself has met before its current
\* candidate
OwnSeen ==
    UNION {{KeyOf(CandidatesOf(k)[r]) : r \in 1..LastRank(k)} : k \in 1..(i - 1)}
    \cup {KeyOf(candidates[r]) : r \in 1..(j - 1)}

\* C18: two invocations of findContradictions, one after the other or
\* interleaved at their awaits, share no dedup state: when an invocation
\* decides whether to classify a candidate pair, the set it consults holds
\* exactly the pairs this invocation has met itself, whatever the other
\* invocation has seen.
C18_RunsShareNoDedupState ==
    AtCandidate =>
        /\ alreadyCompared = OwnSeen
        /\ CurrentKey \in alreadyCompared <=> CurrentKey \in OwnSeen

\* the running invocation classifies a pair while the other one, suspended
\* at its own classifier call, has that pair in its set
C18_Witness ==
    /\ pc = "classifying"
    /\ suspended # NoFrame
    /\ suspended.pc = "classifying"
    /\ CurrentKey \in suspended.alreadyCompared
    /\ Len(suspended.calls) > 0

(***************************************************************************)
(* utils/citations.ts: parseCitation, and the round trip of an anchor      *)
(* through formatCitation and parseCitation (SpecCitation).                *)
(***************************************************************************)
\* an attempt of /WORD\s+(\d+)/i at position p of s, WORD followed by an
\* optional s when plural (/WORDs?\s+(\d+)/i)
KeywordNumberAt(s, p, word, plural) ==
    LET p1 == p + Len(word)
        p2 == IF plural /\ p1 < Len(s) /\ ToLowerChar(s[p1 + 1]) = "s"
              THEN p1 + 1 ELSE p1
        p3 == SkipIn(s, p2, WhiteSpace)
        p4 == SkipIn(s, p3, Digits)
    IN  IF StartsWithAt(s, p, word) /\ p3 > p2 /\ p4 > p3
        THEN [matched |-> TRUE, end |-> p4, g1 |-> SubSeq(s, p3 + 1, p4)]
        ELSE [matched |-> FALSE, end |-> 0, g1 |-> <<>>]

\* s.match(/WORD\s+(\d+)/i): the leftmost match
KeywordNumberMatch(s, word, plural) ==
    LET hits == {p \in 0..Len(s) : KeywordNumberAt(s, p, word, plural).matched}
    IN  IF hits = {} THEN [matched |-> FALSE, end |-> 0, g1 |-> <<>>]
        ELSE KeywordNumberAt(s, CHOOSE p \in hits : \A q \in hits : p <= q,
                             word, plural)

\* citation.match(/Lines?\s+(\d+)(?:-(\d+))?/i); g2 is None when the group
\* did not take part
lineRangeMatch(citation) ==
    LET m == KeywordNumberMatch(citation, <<"L","i","n","e">>, TRUE)
        p5 == m.end + 1
        p6 == SkipIn(citation, p5, Digits)
    IN  IF m.matched /\ m.end < Len(citation) /\ citation[m.end + 1] = "-"
           /\ p6 > p5
        THEN [matched |-> TRUE, g1 |-> m.g1, g2 |-> SubSeq(citation, p5 + 1, p6)]
        ELSE [matched |-> m.matched, g1 |-> m.g1, g2 |-> None]

\* return null
NullAnchor == [null |-> TRUE]

parseCitation(citation) ==
    LET pm == KeywordNumberMatch(citation, <<"P","a","g","e">>, FALSE)
        lm == lineRangeMatch(citation)
        posMatch == KeywordNumberMatch(citation, <<"P","o","s","i","t","i","o","n">>, FALSE)
    IN  IF ~pm.matched THEN NullAnchor
        ELSE IF lm.matched
        THEN [page |-> parseInt(pm.g1),
              lineStart |-> Num(parseInt(lm.g1)),
              lineEnd |-> IF lm.g2 # None THEN Num(parseInt(lm.g2))
                          ELSE UndefinedNum,
              charStart |-> UndefinedNum]
        ELSE [page |-> parseInt(pm.g1),
              lineStart |-> UndefinedNum,
              lineEnd |-> UndefinedNum,
              charStart |-> IF posMatch.matched THEN Num(parseInt(posMatch.g1))
                            ELSE UndefinedNum]

\* page numbers and line numbers of the anchors formatted
AnchorPages == {1, 12}
AnchorLines == {UndefinedNum, Num(1), Num(5), Num(8), Num(10)}
AnchorChars == {UndefinedNum, Num(0), Num(123)}

Anchors ==
    [page : AnchorPages, lineStart : AnchorLines, lineEnd : AnchorLines,
     charStart : AnchorChars]

InitCitation ==
    /\ input \in Anchors
    /\ pc = "anchor"
    /\ returned = <<>>
    /\ rawText = <<>> /\ utterances = <<>>
    /\ claims = <<>> /\ embeddings = NoEmbeddings
    /\ topK = 0 /\ threshold = ZeroScore /\ query = 0
    /\ candidates = <<>>
    /\ IdleDetector
    /\ IdleApp
    /\ suspended = NoFrame
    /\ IdleLoop
    /\ IdleStorage

citationScratch == <<claims, embeddings, topK, threshold, query, i, j, candidates,
                     alreadyCompared, pairsAnalyzed, contradictions, calls,
                     progressLog, utterances, appVars, suspended, input, segmenterVars, storageVars>>

\* formatCitation(anchor)
FormatCall ==
    /\ pc = "anchor"
    /\ rawText' = formatCitation(input)
    /\ pc' = "formatted"
    /\ UNCHANGED <<returned, citationScratch>>

\* parseCitation of the string formatCitation returned
ParseCall ==
    /\ pc = "formatted"
    /\ returned' = parseCitation(rawText)
    /\ pc' = "parsed"
    /\ UNCHANGED <<rawText, citationScratch>>

NextCitation ==
    \/ FormatCall
    \/ ParseCall

SpecCitation == InitCitation /\ [][NextCitation]_vars

(***************************************************************************)
(* Properties of the citation round trip.                                  *)
(***************************************************************************)
Parsed == pc = "parsed"

\* C21: for every anchor with page, lineStart and lineEnd set and
\* lineEnd >= lineStart, parsing the formatted anchor gives an anchor with
\* the same page, lineStart and lineEnd.
C21_CitationRoundTrip ==
    /\ Parsed
    /\ input.lineStart.defined /\ input.lineEnd.defined
    /\ input.lineEnd.n >= input.lineStart.n
    => /\ returned # NullAnchor
       /\ returned.page = input.page
       /\ returned.lineStart = input.lineStart
       /\ returned.lineEnd = input.lineEnd

(***************************************************************************)
(* IEEE 754 double arithmetic, as far as cosineSimilarity uses it on       *)
(* vectors of small integers.  A natural number of any size is a sequence  *)
(* of limbs, least significant first, without leading zero limbs.  A       *)
(* double is sgn * m * 2^e with 2^52 <= m < 2^53, or zero (sgn = 0).       *)
(***************************************************************************)
LimbBits == 15
LimbBase == 2 ^ LimbBits

RECURSIVE BigOfNat(_)
BigOfNat(n) == IF n = 0 THEN <<>> ELSE <<n % LimbBase>> \o BigOfNat(n \div LimbBase)

RECURSIVE BigTrim(_)
BigTrim(x) ==
    IF x # <<>> /\ x[Len(x)] = 0 THEN BigTrim(SubSeq(x, 1, Len(x) - 1)) ELSE x

LimbAt(x, k) == IF k <= Len(x) THEN x[k] ELSE 0

RECURSIVE BigAddFrom(_, _, _, _)
BigAddFrom(a, b, k, carry) ==
    IF k > Len(a) /\ k > Len(b)
    THEN IF carry = 0 THEN <<>> ELSE <<carry>>
    ELSE LET sum == LimbAt(a, k) + LimbAt(b, k) + carry
         IN  <<sum % LimbBase>> \o BigAddFrom(a, b, k + 1, sum \div LimbBase)

BigAdd(a, b) == BigAddFrom(a, b, 1, 0)

RECURSIVE BigLessFrom(_, _, _)
\* a < b for numbers of the same length, decided from limb k down
BigLessFrom(a, b, k) ==
    IF k = 0 THEN FALSE
    ELSE IF a[k] # b[k] THEN a[k] < b[k]
    ELSE BigLessFrom(a, b, k - 1)

BigLess(a, b) ==
    IF Len(a) # Len(b) THEN Len(a) < Len(b) ELSE BigLessFrom(a, b, Len(a))

RECURSIVE BigMulLimbFrom(_, _, _, _)
BigMulLimbFrom(a, d, k, carry) ==
    IF k > Len(a)
    THEN IF carry = 0 THEN <<>> ELSE <<carry>>
    ELSE LET prod == a[k] * d + carry
         IN  <<prod % LimbBase>> \o BigMulLimbFrom(a, d, k + 1, prod \div LimbBase)

RECURSIVE BigMulFrom(_, _, _)
BigMulFrom(a, b, k) ==
    IF k > Len(b) THEN <<>>
    ELSE BigAdd(BigMulLimbFrom(a, b[k], 1, 0), <<0>> \o BigMulFrom(a, b, k + 1))

BigMul(a, b) == BigTrim(BigMulFrom(a, b, 1))

BigPow2(k) == [n \in 1..(k \div LimbBits) |-> 0] \o <<2 ^ (k % LimbBits)>>

RECURSIVE BitLength(_)
BitLength(n) == IF n = 0 THEN 0 ELSE 1 + BitLength(n \div 2)

BigBitLength(x) ==
    IF x = <<>> THEN 0 ELSE LimbBits * (Len(x) - 1) + BitLength(x[Len(x)])

\* floor(x / 2^n)
BigShiftRight(x, n) ==
    LET q == n \div LimbBits
        r == n % LimbBits
    IN  BigTrim([k \in 1..(Len(x) - q) |->
                    (x[k + q] \div (2 ^ r))
                    + (LimbAt(x, k + q + 1) % (2 ^ r)) * (2 ^ (LimbBits - r))])

\* bit n of x (bit 0 the least significant)
BigBit(x, n) == (LimbAt(x, (n \div LimbBits) + 1) \div (2 ^ (n % LimbBits))) % 2

\* x is a multiple of 2^n
BigLowBitsZero(x, n) == \A k \in 0..(n - 1) : BigBit(x, k) = 0

RECURSIVE SqrtBits(_, _, _)
\* the largest r' >= r with r' * r' <= t that differs from r in bits k..0
SqrtBits(t, r, k) ==
    IF k < 0 THEN r
    ELSE LET cand == BigAdd(r, BigPow2(k))
         IN  IF BigLess(t, BigMul(cand, cand)) THEN SqrtBits(t, r, k - 1)
             ELSE SqrtBits(t, cand, k - 1)

\* floor(sqrt(t))
BigSqrt(t) == SqrtBits(t, <<>>, (BigBitLength(t) + 1) \div 2)

RECURSIVE DivBits(_, _, _, _)
DivBits(a, p, q, k) ==
    IF k < 0 THEN q
    ELSE LET cand == BigAdd(q, BigPow2(k))
         IN  IF BigLess(a, BigMul(cand, p)) THEN DivBits(a, p, q, k - 1)
             ELSE DivBits(a, p, cand, k - 1)

\* floor(a / p), p > 0
BigDiv(a, p) == DivBits(a, p, <<>>, BigBitLength(a) - BigBitLength(p) + 1)

\* the double of a natural number below 2^53 (exact)
DoubleOfNat(n) ==
    IF n = 0 THEN [sgn |-> 0, m |-> <<>>, e |-> 0]
    ELSE [sgn |-> 1, m |-> BigMul(BigOfNat(n), BigPow2(53 - BitLength(n))),
          e |-> BitLength(n) - 53]

\* round to nearest, ties to even: the double nearest to x * 2^e, where x
\* has at least 54 bits and inexact says that bits below x were cut off
RoundToDouble(x, e, inexact) ==
    LET shift == BigBitLength(x) - 53
        q == BigShiftRight(x, shift)
        half == BigBit(x, shift - 1) = 1
        below == inexact \/ ~ BigLowBitsZero(x, shift - 1)
        up == half /\ (below \/ BigBit(q, 0) = 1)
        m == IF up THEN BigAdd(q, <<1>>) ELSE q
    IN  IF BigBitLength(m) > 53
        THEN [sgn |-> 1, m |-> BigShiftRight(m, 1), e |-> e + shift + 1]
        ELSE [sgn |-> 1, m |-> m, e |-> e + shift]

\* Math.sqrt of a natural number below 2^53
MathSqrt(n) ==
    IF n = 0 THEN DoubleOfNat(0)
    ELSE LET t == BigMul(BigOfNat(n), BigPow2(108))
             r == BigSqrt(t)
         IN  RoundToDouble(r, -54, BigMul(r, r) # t)

\* x * y of two positive doubles
DoubleTimes(x, y) == RoundToDouble(BigMul(x.m, y.m), x.e + y.e, FALSE)

\* n / y of an integer n (|n| < 2^53) and a positive double y
DoubleDivide(n, y) ==
    IF n = 0 THEN DoubleOfNat(0)
    ELSE LET a == BigMul(BigOfNat(IF n < 0 THEN -n ELSE n), BigPow2(110))
             q == BigDiv(a, y.m)
             r == RoundToDouble(q, -110 - y.e, BigMul(q, y.m) # a)
         IN  [r EXCEPT !.sgn = IF n < 0 THEN -1 ELSE 1]

\* 1.0
DoubleOne == DoubleOfNat(1)

\* a skewed quotient: dotProduct / (normA * normA)
cosineOverNormA(vecA, vecB) ==
    LET dotProduct == Dot(vecA.v, vecB.v)
        normA == MathSqrt(Dot(vecA.v, vecA.v))
        normB == MathSqrt(Dot(vecB.v, vecB.v))
    IN  IF normA.sgn = 0 \/ normB.sgn = 0 THEN DoubleOfNat(0)
        ELSE DoubleDivide(dotProduct, DoubleTimes(normA, normA))

\* cosineSimilarity in double arithmetic, where it does not throw; the sums
\* of products of small integers are exact
cosineSimilarityDouble(vecA, vecB) ==
    LET dotProduct == Dot(vecA.v, vecB.v)
        normA == MathSqrt(Dot(vecA.v, vecA.v))
        normB == MathSqrt(Dot(vecB.v, vecB.v))
    IN  IF normA.sgn = 0 \/ normB.sgn = 0 THEN DoubleOfNat(0)
        ELSE DoubleDivide(dotProduct, DoubleTimes(normA, normB))

\* number[] arguments: vectors of 1..MaxDimension integers of magnitude
\* up to MaxComponent
VectorInputs ==
    UNION {[1..n -> (-MaxComponent)..MaxComponent] : n \in 1..MaxDimension}

InitCosine ==
    /\ input \in [vecA : {Vec(v) : v \in VectorInputs},
                  vecB : {Vec(v) : v \in VectorInputs}]
    /\ pc = "cosine"
    /\ returned = <<>>
    /\ rawText = <<>> /\ utterances = <<>>
    /\ claims = <<>> /\ embeddings = NoEmbeddings
    /\ topK = 0 /\ threshold = ZeroScore /\ query = 0
    /\ candidates = <<>>
    /\ IdleDetector
    /\ IdleApp
    /\ suspended = NoFrame
    /\ IdleLoop
    /\ IdleStorage

\* throw new Error('Vectors must have the same length')
CosineThrows ==
    /\ pc = "cosine"
    /\ cosineThrows(input.vecA, input.vecB)
    /\ pc' = "thrown"
    /\ UNCHANGED <<returned, rawText, citationScratch>>

CosineReturns ==
    /\ pc = "cosine"
    /\ ~ cosineThrows(input.vecA, input.vecB)
    /\ returned' = cosineSimilarityDouble(input.vecA, input.vecB)
    /\ pc' = "returned"
    /\ UNCHANGED <<rawText, citationScratch>>

NextCosine ==
    \/ CosineThrows
    \/ CosineReturns

SpecCosine == InitCosine /\ [][NextCosine]_vars

(***************************************************************************)
(* Properties of cosineSimilarity (SpecCosine).                            *)
(***************************************************************************)
CosineReturned == pc = "returned"

\* C22: cosineSimilarity is symmetric: for vectors a and b of equal length
\* the call with (a, b) returns the very number the call with (b, a) returns.
C22_CosineSymmetric ==
    CosineReturned =>
        returned = cosineSimilarityDouble(input.vecB, input.vecA)

C22_Witness ==
    /\ CosineReturned
    /\ Dot(input.vecA.v, input.vecA.v) # Dot(input.vecB.v, input.vecB.v)
    /\ returned.sgn = -1
    /\ returned # [DoubleOne EXCEPT !.sgn = -1]

\* C23: cosineSimilarity(v, v) is 1.0 for every non-zero vector v, and it is
\* 0 only when v has zero norm.
C23_SelfSimilarityIsOne ==
    CosineReturned /\ input.vecA = input.vecB =>
        /\ Dot(input.vecA.v, input.vecA.v) # 0 => returned = DoubleOne
        /\ returned.sgn = 0 => Dot(input.vecA.v, input.vecA.v) = 0

(***************************************************************************)
(* extractUtterances step by step (SpecSegSteps): line tagging, then one   *)
(* pass of the loop per tagged line, then the flush of the last utterance. *)
(* i is the position of the tagged line the loop is at.                    *)
(***************************************************************************)
StepLinePool ==
    <<<<"P","a","g","e"," ","2">>, <<"[","P","a","g","e"," ","3","]">>, <<"P","a","g","e"," ","x">>, <<"Q","."," ","W","h","o","?">>, <<"A",":"," ","M","e",".">>, <<"s","o"," ","o","n",".">>, <<"A","n","d"," ","s","o",".">>,
      <<"(","N","o","d",")">>, <<>>, <<"M","R","."," ","X",":"," ","O","k">>, <<"T","H","E"," ","W","I","T","N","E","S","S",":"," ","I">>, <<"Q",".">>, <<"9"," ","Q","."," ","A","n","d","?">>,
      <<"2"," ","A","."," ","N","o",".">>, <<"3"," ","A",".">>, <<"A","N","S","W","E","R",":"," ","Y","e","s">>>>

InitSegSteps ==
    /\ \E n \in 1..MaxStepLines : \E pick \in [1..n -> 1..Len(StepLinePool)] :
          rawText = [k \in 1..n |-> StepLinePool[pick[k]]]
    /\ utterances = <<>>
    /\ taggedLines = <<>>
    /\ currentUtterance = NoUtterance
    /\ pc = "tag"
    /\ claims = <<>> /\ embeddings = NoEmbeddings
    /\ topK = 0 /\ threshold = ZeroScore /\ query = 0
    /\ candidates = <<>>
    /\ IdleDetector
    /\ IdleApp
    /\ suspended = NoFrame
    /\ input = NoInput
    /\ IdleStorage

stepScratch == <<claims, embeddings, topK, threshold, query, j, candidates,
                 alreadyCompared, pairsAnalyzed, contradictions, calls,
                 progressLog, returned, rawText, appVars, suspended, input,
                 storageVars>>

\* const lines = parseIntoLines(document.rawText)
TagLines ==
    /\ pc = "tag"
    /\ taggedLines' = parseIntoLines(rawText)
    /\ i' = 1
    /\ pc' = "loop"
    /\ UNCHANGED <<utterances, currentUtterance, stepScratch>>

\* one pass of for (const line of lines)
SegmentStep ==
    /\ pc = "loop"
    /\ i <= Len(taggedLines)
    /\ LET after == SegmentLine(taggedLines[i], currentUtterance, utterances)
       IN  /\ currentUtterance' = after.current
           /\ utterances' = after.out
    /\ i' = i + 1
    /\ UNCHANGED <<pc, taggedLines, stepScratch>>

\* "Don't forget the last utterance", return utterances
FlushLast ==
    /\ pc = "loop"
    /\ i > Len(taggedLines)
    /\ utterances' = SavePrevious(currentUtterance, utterances)
    /\ pc' = "segmented"
    /\ UNCHANGED <<i, taggedLines, currentUtterance, stepScratch>>

NextSegSteps ==
    \/ TagLines
    \/ SegmentStep
    \/ FlushLast

SpecSegSteps == InitSegSteps /\ [][NextSegSteps]_vars

\* the steps add up to the function
StepsAgree == Segmented => utterances = extractUtterances(rawText)

(***************************************************************************)
(* Properties of the segmenter, step by step (SpecSegSteps).               *)
(***************************************************************************)
Tagged == pc \in {"loop", "segmented"}

IsPageMarker(line) == pageMatch(line).matched

IsEmptyLine(line) == trim(line) = <<>>

RECURSIVE KeptFrom(_)
\* the positions in rawText, from k on, of the lines that are neither page
\* markers nor empty
KeptFrom(k) ==
    IF k > Len(rawText) THEN <<>>
    ELSE IF IsPageMarker(rawText[k]) \/ IsEmptyLine(rawText[k]) THEN KeptFrom(k + 1)
    ELSE <<k>> \o KeptFrom(k + 1)

\* the page of line k: the number of the last page marker before it, or 1
PageOfLine(k) ==
    LET markers == {m \in 1..(k - 1) : IsPageMarker(rawText[m])}
    IN  IF markers = {} THEN 1
        ELSE parseInt(pageMatch(rawText[CHOOSE m \in markers :
                                           \A n \in markers : n <= m]).g1)

RECURSIVE OffsetOfLine(_)
\* the number of characters before line k, line ends included
OffsetOfLine(k) ==
    IF k = 1 THEN 0 ELSE OffsetOfLine(k - 1) + Len(rawText[k - 1]) + 1

\* C24: line tagging leaves out the page-marker lines and the empty lines
\* and nothing else; every other line is tagged, in order, with the number of
\* the last page marker before it as its page, or 1 when there is none; no
\* tagged line is a page marker; tagging never fails.
C24_PageOfTaggedLines ==
    /\ pc \in {"tag", "loop", "segmented"}
    /\ Tagged =>
          /\ Len(taggedLines) = Len(KeptFrom(1))
          /\ \A n \in 1..Len(taggedLines) :
                n <= Len(KeptFrom(1)) =>
                   /\ taggedLines[n].charOffset = OffsetOfLine(KeptFrom(1)[n])
                   /\ taggedLines[n].pageNumber = PageOfLine(KeptFrom(1)[n])
          /\ \A n \in 1..Len(taggedLines) :
                \A k \in 1..Len(rawText) :
                   taggedLines[n].charOffset = OffsetOfLine(k) =>
                      ~ IsPageMarker(rawText[k])

\* the loop is at a tagged line
AtLine == pc = "loop" /\ i <= Len(taggedLines)

\* the question and answer markers
QuestionMarkers == {<<"Q",".">>, <<"Q",":">>, <<"Q","U","E","S","T","I","O","N",":">>}
AnswerMarkers == {<<"A",".">>, <<"A",":">>, <<"A","N","S","W","E","R",":">>}

BeginsWith(text, markers) == \E w \in markers : StartsWithAt(text, 0, w)

BeginsWithMarker(text) == BeginsWith(text, QuestionMarkers \cup AnswerMarkers)

\* the length of the marker a marker line begins with
MarkerLength(text) ==
    IF BeginsWithMarker(text)
    THEN Len(CHOOSE w \in QuestionMarkers \cup AnswerMarkers :
                StartsWithAt(text, 0, w))
    ELSE speakerMatch(text).len

\* C25: a line that begins neither with a question or answer marker nor with
\* a speaker-name header never opens an utterance and never emits one: when
\* an utterance is open and the line is no header pattern the line is
\* appended unchanged to that utterance, otherwise the line is dropped.
C25_OtherLinesContinue ==
    [][(/\ AtLine
        /\ ~ BeginsWithMarker(taggedLines[i].text)
        /\ ~ speakerMatch(taggedLines[i].text).matched)
       => /\ utterances' = utterances
          /\ currentUtterance' =
                IF currentUtterance.role # "null"
                   /\ ~ isHeaderLine(taggedLines[i].text)
                THEN [currentUtterance EXCEPT
                         !.lines = Append(@, taggedLines[i])]
                ELSE currentUtterance]_vars

\* C26: when a marker line opens an utterance the whole marker (Q., Q:,
\* QUESTION:, A., A:, ANSWER: or the speaker-name header) is removed: the
\* utterance starts with the content after the marker and nothing else.
C26_MarkerIsRemoved ==
    [][(/\ AtLine
        /\ \/ BeginsWithMarker(taggedLines[i].text)
           \/ speakerMatch(taggedLines[i].text).matched)
       => currentUtterance'.lines =
             <<[taggedLines[i] EXCEPT
                   !.text = trim(Substring(taggedLines[i].text,
                                           MarkerLength(taggedLines[i].text)))]>>]_vars

\* C27: an utterance is emitted only when its buffered text is not empty: a
\* marker line without content that another marker or the end of the input
\* follows produces no utterance.
C27_NoEmptyUtterance ==
    \A u \in 1..Len(utterances) : utterances[u].text # <<>>

\* C28: for a speaker-name header line the utterance opened is an ANSWER if
\* the header begins with THE or names WITNESS or the utterance open at that
\* moment is a QUESTION, and a QUESTION otherwise (no utterance open, or an
\* ANSWER open).
C28_SpeakerRole ==
    [][(AtLine /\ speakerMatch(taggedLines[i].text).matched)
       => currentUtterance'.role =
             IF \/ StartsWithAt(taggedLines[i].text, 0, <<"T","H","E">>)
                \/ toUpperCase(speakerMatch(taggedLines[i].text).g2) = <<"W","I","T","N","E","S","S">>
                \/ currentUtterance.role = "QUESTION"
             THEN "ANSWER" ELSE "QUESTION"]_vars

\* an utterance opened by a MR. header right after a question: an ANSWER
C28_Witness ==
    /\ pc = "loop"
    /\ i > 2
    /\ StartsWithAt(taggedLines[i - 1].text, 0, <<"M","R",".">>)
    /\ BeginsWith(taggedLines[i - 2].text, QuestionMarkers)
    /\ currentUtterance.role = "ANSWER"
    /\ Len(utterances) > 0
    /\ utterances[Len(utterances)].role = "QUESTION"

\* C29: every utterance emitted with both lineStart and lineEnd set has
\* lineEnd >= lineStart.
C29_LineEndNotBeforeStart ==
    \A u \in 1..Len(utterances) :
        utterances[u].lineStart.defined /\ utterances[u].lineEnd.defined =>
            utterances[u].lineEnd.n >= utterances[u].lineStart.n

\* an utterance is emitted in this step
Emits == Len(utterances') = Len(utterances) + 1

\* the citation that names a character offset
PositionCitation(page, offset) ==
    <<"P","a","g","e"," ">> \o NumberToString(page) \o <<","," ","P","o","s","i","t","i","o","n"," ">> \o NumberToString(offset)

\* the emitted utterance has the page of the first buffered line and the
\* line numbers of the first and the last buffered line
AnchoredAtBufferedLines ==
    LET lines == currentUtterance.lines
        u == utterances'[Len(utterances')]
    IN  /\ u.pageNumber = lines[1].pageNumber
        /\ u.lineStart = lines[1].lineNumber
        /\ u.lineEnd = lines[Len(lines)].lineNumber

\* the citation of the emitted utterance is the character offset of the
\* first buffered line
FallsBackToOffset ==
    utterances'[Len(utterances')].citation =
        PositionCitation(currentUtterance.lines[1].pageNumber,
                         currentUtterance.lines[1].charOffset)

SignalsMatching(a, b) ==
    Cardinality({s \in {"entity", "topic", "temporal"} :
                    \/ s = "entity" /\ EntityCondition(a, b)
                    \/ s = "topic" /\ TopicCondition(a, b)
                    \/ s = "temporal" /\ TemporalCondition(a, b)})

\* C31: in the list generateCandidates returns every pair has the query
\* claim as claimA, claimB is never the query claim, and no claim is claimB
\* of two pairs, however many signals match it.
C31_EachClaimOnce ==
    Generated =>
        /\ \A c \in 1..Len(candidates) :
              /\ candidates[c].claimA = QueryClaim
              /\ candidates[c].claimB # QueryClaim
              /\ candidates[c].claimB.id # QueryClaim.id
        /\ \A c, d \in 1..Len(candidates) :
              c # d => /\ candidates[c].claimB # candidates[d].claimB
                       /\ candidates[c].claimB.id # candidates[d].claimB.id

\* two pairs returned, one of them with a claim that the semantic signal
\* proposed and that two later signals match as well
C31_Witness ==
    /\ Generated
    /\ Len(candidates) = 2
    /\ \E c \in 1..Len(candidates) :
          /\ candidates[c].reason = "semantic"
          /\ SignalsMatching(QueryClaim, candidates[c].claimB) >= 2

(***************************************************************************)
(* SpecPairKey: getPairKey on the ids of two pairs of claims.              *)
(***************************************************************************)
\* characters of a uuid: hexadecimal digits and the hyphen
IdChars == {"-", "3", "b", "e"}

\* claim ids (uuidv4()): strings of one length over the uuid characters
PairIds == {<<c, d>> : c \in IdChars, d \in IdChars}

InitPairKey ==
    /\ input \in [idA : PairIds, idB : PairIds, idC : PairIds, idD : PairIds]
    /\ input.idA # input.idB
    /\ input.idC # input.idD
    /\ returned = <<>>
    /\ pc = "keys"
    /\ claims = <<>>
    /\ embeddings = NoEmbeddings
    /\ topK = 0
    /\ threshold = ZeroScore
    /\ query = 0
    /\ candidates = <<>>
    /\ i = 0
    /\ j = 0
    /\ alreadyCompared = {}
    /\ pairsAnalyzed = 0
    /\ contradictions = <<>>
    /\ calls = <<>>
    /\ progressLog = <<>>
    /\ IdleSegmenter
    /\ IdleApp
    /\ suspended = NoFrame
    /\ IdleLoop
    /\ IdleStorage

\* the keys of (idA, idB), of (idB, idA) and of (idC, idD)
PairKeyCalls ==
    /\ pc = "keys"
    /\ returned' = [ab |-> getPairKey(input.idA, input.idB),
                    ba |-> getPairKey(input.idB, input.idA),
                    cd |-> getPairKey(input.idC, input.idD)]
    /\ pc' = "keyed"
    /\ UNCHANGED <<claims, embeddings, topK, threshold, query, i, j, candidates,
                   alreadyCompared, pairsAnalyzed, contradictions, calls,
                   progressLog, rawText, utterances, appVars, suspended, input,
                   segmenterVars, storageVars>>

NextPairKey == PairKeyCalls

SpecPairKey == InitPairKey /\ [][NextPairKey]_vars

Keyed == pc = "keyed"

\* C32: getPairKey(a, b) = getPairKey(b, a), and two different unordered
\* pairs of claim ids never have the same key.
C32_KeyIdentifiesUnorderedPair ==
    Keyed =>
        /\ returned.ab = returned.ba
        /\ {input.idA, input.idB} # {input.idC, input.idD} => returned.ab # returned.cd
        /\ {input.idA, input.idB} = {input.idC, input.idD} => returned.ab = returned.cd

\* two pairs that share their smaller id and differ in the other, keyed
\* differently, the first pair given in descending order
C32_Witness ==
    /\ Keyed
    /\ StringLess(input.idB, input.idA)
    /\ input.idB = input.idC
    /\ input.idA # input.idD
    /\ StringLess(input.idC, input.idD)
    /\ returned.ab # returned.cd
    /\ returned.ab = input.idB \o <<":">> \o input.idA

(***************************************************************************)
(* The counters of a findContradictions run (Spec).                        *)
(***************************************************************************)
\* C33: at every point of a run pairsAnalyzed is the number of pair keys in
\* alreadyCompared, pairs whose classification failed or was refused
\* included; the contradictions collected never outnumber pairsAnalyzed; and
\* neither counter ever decreases.
C33_CountersFollowSeenKeys ==
    /\ [](/\ pairsAnalyzed = Cardinality(alreadyCompared)
          /\ Len(contradictions) <= pairsAnalyzed)
    /\ [][/\ pairsAnalyzed' >= pairsAnalyzed
          /\ Len(contradictions') >= Len(contradictions)
          /\ alreadyCompared \subseteq alreadyCompared']_vars

\* a run that counted three pairs: one failed, one judged consistent, one
\* recorded as a contradiction, and a fourth proposal that was skipped
C33_Witness ==
    /\ pc = "done"
    /\ pairsAnalyzed = 3
    /\ Len(contradictions) = 1
    /\ \E c \in 1..Len(calls) : calls[c].outcome = "failed"
    /\ \E c \in 1..Len(calls) : calls[c].outcome = "CONSISTENT"
    /\ Len(calls) = 3

(***************************************************************************)
(* What becomes of each tagged line (SpecSegSteps).                        *)
(***************************************************************************)
\* the tagged line takes one of the three marker branches of the loop
Opens(text) ==
    qMatch(text).matched \/ aMatch(text).matched \/ speakerMatch(text).matched

\* the positions of the tagged lines that open an utterance, ascending
OpenerPositions ==
    LET at == {k \in 1..Len(taggedLines) : Opens(taggedLines[k].text)}
    IN  [m \in 1..Cardinality(at) |->
            CHOOSE k \in at : Cardinality({n \in at : n < k}) = m - 1]

\* the tagged lines between the m-th opener and the next one (or the end)
\* that are no header lines
ContinuationsOf(m) ==
    LET from == OpenerPositions[m] + 1
        to == IF m < Len(OpenerPositions) THEN OpenerPositions[m + 1] - 1
              ELSE Len(taggedLines)
    IN  FilterSeq([k \in 1..(to - from + 1) |-> taggedLines[from + k - 1]],
                  {l \in Range(taggedLines) : ~ isHeaderLine(l.text)})

StageOrder == <<"parsing", "extracting", "embedding", "analyzing", "complete">>

StageRank(stage) == CHOOSE r \in 1..Len(StageOrder) : StageOrder[r] = stage

\* the statuses the current run has set, in the order of the setStatus calls
StatusesSet ==
    LET at == {k \in 1..Len(events) : events[k].kind = "setStatus"}
    IN  [m \in 1..Cardinality(at) |->
            events[CHOOSE k \in at : Cardinality({n \in at : n < k}) = m - 1].status]

PercentGeq(p, q) == p.num * q.den >= q.num * p.den

\* C35: the statuses a run sets go forward through parsing, extracting,
\* embedding, analyzing, complete, or jump to error; no status follows a
\* terminal one; the progress does not decrease from one status to the next
\* unless the next is the error; and the stage complete comes with progress
\* 100 and a Report.
C35_StatusMovesForward ==
    /\ \A m \in 1..Len(StatusesSet) :
          StatusesSet[m].stage \in Range(StageOrder) \cup {"error"}
    /\ \A m \in 1..(Len(StatusesSet) - 1) :
          LET s == StatusesSet[m]
              t == StatusesSet[m + 1]
          IN  /\ s.stage \notin TerminalStages
              /\ t.stage # "error" =>
                    /\ StageRank(t.stage) >= StageRank(s.stage)
                    /\ PercentGeq(t.progress, s.progress)
    /\ Started => status = StatusesSet[Len(StatusesSet)]
    /\ status.stage = "complete" =>
          /\ status.progress = Percent(100, 1)
          /\ report.set

\* a completed run whose extraction and analysis callbacks each reported a
\* fraction between the bounds of their stage
C35_Witness ==
    /\ Settled
    /\ status.stage = "complete"
    /\ \E m \in 1..Len(StatusesSet) :
          /\ StatusesSet[m].stage = "extracting"
          /\ StatusesSet[m].progress = Percent(100, 2)
    /\ \E m \in 1..Len(StatusesSet) :
          /\ StatusesSet[m].stage = "analyzing"
          /\ StatusesSet[m].progress = Percent(165, 2)
    /\ \E m \in 1..Len(StatusesSet) : StatusesSet[m].stage = "embedding"

(***************************************************************************)
(* The arguments findContradictions is started with (SpecRun).             *)
(***************************************************************************)
\* C36: whenever contradiction detection is started with embeddings, there
\* are as many embeddings as claims handed over, and the k-th embedding is
\* the one of the text of the k-th claim: neither the claim filter nor the
\* text filter of generateBatchEmbeddings shifts the positions.
C36_EmbeddingsMatchClaims ==
    Happened(Call("findContradictions")) =>
        /\ embeddings.given
        /\ Len(embeddings.list) = Len(validClaims)
        /\ \A k \in 1..Len(validClaims) :
              /\ embeddings.list[k] = EmbeddingOf(trim(validClaims[k].normalizedText))
              /\ validClaims[k] \in Range(claims)
        /\ Len(validClaims) =
              Cardinality({k \in 1..Len(claims) :
                              /\ claims[k].normalizedText # None
                              /\ trim(claims[k].normalizedText) # <<>>})

\* detection started after the claim filter dropped the first of two
\* claims, the text of the other one beginning with white space
C36_Witness ==
    /\ Happened(Call("findContradictions"))
    /\ Len(claims) = 2
    /\ Len(validClaims) = 1
    /\ validClaims[1] = claims[2]
    /\ claims[1].normalizedText = <<" ">>
    /\ validClaims[1].normalizedText # trim(validClaims[1].normalizedText)
    /\ Len(embeddings.list) = 1

(***************************************************************************)
(* SpecStorage: the storage utilities over localStorage.  loadFromStorage  *)
(* returns the object emptyStorage itself when no item is stored, and the  *)
(* save functions change the object they loaded in place.  A date is kept  *)
(* by its kind: a Date object, or the string JSON.stringify made of it.    *)
(***************************************************************************)
MaxStored == 1   \* entries of each list of the stored data

\* arguments of saveDocument: two versions of one document, and another
StoredDocuments ==
    {[id |-> "d1", name |-> "a.txt", uploadedAt |-> "Date"],
     [id |-> "d1", name |-> "b.txt", uploadedAt |-> "Date"],
     [id |-> "d2", name |-> "a.txt", uploadedAt |-> "Date"]}

StoredUtterance == [id |-> "u1", timestamp |-> "Date"]
StoredClaim == [id |-> "c1", createdAt |-> "Date"]
StoredContradiction ==
    [id |-> "x1", createdAt |-> "Date", claimA |-> StoredClaim, claimB |-> StoredClaim]

\* JSON.stringify(data): every Date becomes a string
Stringify(data) ==
    [documents |-> [k \in 1..Len(data.documents) |->
                       [data.documents[k] EXCEPT !.uploadedAt = "string"]],
     utterances |-> [k \in 1..Len(data.utterances) |->
                       [data.utterances[k] EXCEPT !.timestamp = "string"]],
     claims |-> [k \in 1..Len(data.claims) |->
                       [data.claims[k] EXCEPT !.createdAt = "string"]],
     contradictions |-> [k \in 1..Len(data.contradictions) |->
                       [data.contradictions[k] EXCEPT !.createdAt = "string",
                                                      !.claimA.createdAt = "string",
                                                      !.claimB.createdAt = "string"]]]

\* JSON.parse(data) with the dates of documents, claims and contradictions
\* converted back by new Date(...)
Revive(parsed) ==
    [documents |-> [k \in 1..Len(parsed.documents) |->
                       [parsed.documents[k] EXCEPT !.uploadedAt = "Date"]],
     utterances |-> parsed.utterances,
     claims |-> [k \in 1..Len(parsed.claims) |->
                       [parsed.claims[k] EXCEPT !.createdAt = "Date"]],
     contradictions |-> [k \in 1..Len(parsed.contradictions) |->
                       [parsed.contradictions[k] EXCEPT !.createdAt = "Date",
                                                        !.claimA.createdAt = "Date",
                                                        !.claimB.createdAt = "Date"]]]

\* if (!data) return emptyStorage: the object itself, not a copy
ReturnsEmptyStorage == ~ localStorage.present

loadFromStorage ==
    IF ReturnsEmptyStorage THEN emptyStorage ELSE Revive(localStorage.data)

InitStorage ==
    /\ IdleStorage
    /\ pc = "ready"
    /\ returned = <<>>
    /\ rawText = <<>> /\ utterances = <<>>
    /\ claims = <<>> /\ embeddings = NoEmbeddings
    /\ topK = 0 /\ threshold = ZeroScore /\ query = 0
    /\ candidates = <<>>
    /\ IdleDetector
    /\ IdleApp
    /\ suspended = NoFrame
    /\ IdleLoop
    /\ input = NoInput

storageScratch == <<claims, embeddings, topK, threshold, query, i, j, candidates,
                    alreadyCompared, pairsAnalyzed, contradictions, calls,
                    progressLog, rawText, utterances, appVars, suspended, input,
                    segmenterVars>>

\* the end of a save function: data, changed in place, is written by
\* saveToStorage, whose setItem may throw; the change stays in emptyStorage
\* when data is that object
WriteBack(data) ==
    /\ emptyStorage' = IF ReturnsEmptyStorage THEN data ELSE emptyStorage
    /\ \E written \in BOOLEAN :
          localStorage' = IF written THEN [present |-> TRUE, data |-> Stringify(data)]
                          ELSE localStorage
    /\ pc' = "saved"
    /\ UNCHANGED <<returned, storageScratch>>

saveDocument ==
    \E document \in StoredDocuments :
        LET data == loadFromStorage
            existing == {k \in 1..Len(data.documents) : data.documents[k].id = document.id}
        IN  /\ existing # {} \/ Len(data.documents) < MaxStored
            /\ WriteBack(IF existing # {}
                         THEN [data EXCEPT !.documents[CHOOSE k \in existing :
                                                          \A n \in existing : k <= n] = document]
                         ELSE [data EXCEPT !.documents = Append(@, document)])

saveUtterances ==
    LET data == loadFromStorage
    IN  /\ Len(data.utterances) < MaxStored
        /\ WriteBack([data EXCEPT !.utterances = Append(@, StoredUtterance)])

saveClaims ==
    LET data == loadFromStorage
    IN  /\ Len(data.claims) < MaxStored
        /\ WriteBack([data EXCEPT !.claims = Append(@, StoredClaim)])

saveContradictions ==
    LET data == loadFromStorage
    IN  /\ Len(data.contradictions) < MaxStored
        /\ WriteBack([data EXCEPT !.contradictions = Append(@, StoredContradiction)])

\* localStorage.removeItem(STORAGE_KEY)
clearStorage ==
    /\ localStorage' = NoItem
    /\ pc' = "cleared"
    /\ UNCHANGED <<emptyStorage, returned, storageScratch>>

\* a call of loadFromStorage by the application
LoadCall ==
    /\ pc \in {"ready", "saved", "cleared"}
    /\ returned' = loadFromStorage
    /\ pc' = IF pc = "cleared" THEN "loadedAfterClear" ELSE "loaded"
    /\ UNCHANGED <<storageVars, storageScratch>>

NextStorage ==
    \/ saveDocument
    \/ saveUtterances
    \/ saveClaims
    \/ saveContradictions
    \/ clearStorage
    \/ LoadCall

SpecStorage == InitStorage /\ [][NextStorage]_vars

\* C37: loadFromStorage called right after clearStorage returns no
\* documents, no utterances, no claims and no contradictions, whatever was
\* saved and cleared before.
C37_ClearedStorageLoadsEmpty ==
    pc = "loadedAfterClear" =>
        /\ returned.documents = <<>>
        /\ returned.utterances = <<>>
        /\ returned.claims = <<>>
        /\ returned.contradictions = <<>>

(***************************************************************************)
(* SpecCitationId: generateCitationId on two anchors.                      *)
(***************************************************************************)
RECURSIVE JoinParts(_)
\* parts.join('-')
JoinParts(parts) ==
    IF Len(parts) = 1 THEN NumberToString(parts[1])
    ELSE NumberToString(parts[1]) \o <<"-">> \o JoinParts(Tail(parts))

generateCitationId(anchor) ==
    JoinParts(<<anchor.page>>
              \o (IF anchor.lineStart.defined
                  THEN <<anchor.lineStart.n>>
                       \o (IF anchor.lineEnd.defined THEN <<anchor.lineEnd.n>> ELSE <<>>)
                  ELSE IF anchor.charStart.defined THEN <<anchor.charStart.n>>
                  ELSE <<>>))

\* anchors with character offsets that are line numbers elsewhere
IdAnchors ==
    [page : AnchorPages, lineStart : AnchorLines, lineEnd : AnchorLines,
     charStart : {UndefinedNum, Num(0), Num(5)}]

InitCitationId ==
    /\ input \in [a : IdAnchors, b : IdAnchors]
    /\ pc = "anchors"
    /\ returned = <<>>
    /\ rawText = <<>> /\ utterances = <<>>
    /\ claims = <<>> /\ embeddings = NoEmbeddings
    /\ topK = 0 /\ threshold = ZeroScore /\ query = 0
    /\ candidates = <<>>
    /\ IdleDetector
    /\ IdleApp
    /\ suspended = NoFrame
    /\ IdleLoop
    /\ IdleStorage

\* generateCitationId(a), generateCitationId(b)
CitationIdCalls ==
    /\ pc = "anchors"
    /\ returned' = [a |-> generateCitationId(input.a), b |-> generateCitationId(input.b)]
    /\ pc' = "identified"
    /\ UNCHANGED <<rawText, citationScratch>>

NextCitationId == CitationIdCalls

SpecCitationId == InitCitationId /\ [][NextCitationId]_vars

\* what an anchor points at: a line, a character position, or a page alone
AnchorKind(anchor) ==
    IF anchor.lineStart.defined THEN "line"
    ELSE IF anchor.charStart.defined THEN "position"
    ELSE "page"

\* the line range of an anchor that points at a line
LineRange(anchor) ==
    IF anchor.lineStart.defined THEN <<anchor.lineStart, anchor.lineEnd>> ELSE <<>>

\* C38: two anchors that differ in page, in line range or in kind (line
\* number, character position) never get the same id from
\* generateCitationId.
C38_CitationIdUnique ==
    (/\ pc = "identified"
     /\ \/ input.a.page # input.b.page
        \/ LineRange(input.a) # LineRange(input.b)
        \/ AnchorKind(input.a) # AnchorKind(input.b))
        => returned.a # returned.b

\* the ids of two anchors of the same kind differ when the page or the line
\* range differs
SameKindIdsDiffer ==
    (/\ pc = "identified"
     /\ AnchorKind(input.a) = AnchorKind(input.b)
     /\ input.a.page # input.b.page \/ LineRange(input.a) # LineRange(input.b))
        => returned.a # returned.b

====
